---- MODULE Spec2Model ----
(***************************************************************************)
(* hpc-connector: the job orchestrator (ClusterManager + StorageManager)   *)
(* and the connection layer (ConnectionManager), as state machines.        *)
(*                                                                         *)
(* Spec         orchestrator, one editor command at a time                 *)
(* SpecOverlap  orchestrator, a poll pass overlapping a submission or a    *)
(*              second poll pass, interleaving at the awaits               *)
(* SpecConn     connection layer, two callers interleaving at the awaits   *)
(* SpecSession  connection layer, one caller with the keep-alive timers,   *)
(*              session closes and disconnect() between its steps          *)
(* SpecValidator  SafetyManager applied to paths built segment by segment  *)
(* SpecIds      generateJobId called at successive clock readings          *)
(* SpecStored   one command at a time on a ledger found on disk            *)
(* SpecFetch    downloadDirectory, repeated on an unchanged remote tree    *)
(* SpecScript   ScriptBuilder: a script built, then run by the scheduler   *)
(* SpecBackoff  connectWithRetry with the backoff delays it computes       *)
(* SpecWait     waitForConnection with the time spent in it                *)
(* SpecProbe    isConnectionAlive with its timer and the probe's channel   *)
(* SpecFlag     two callers of connect(), configuration errors included    *)
(* SpecShutdown disconnect() at any moment of an acquisition               *)
(* SpecStore    submissions and poll passes on a ledger file whose read    *)
(*              may fail                                                   *)
(* SpecSbatch   the sbatch step of submitJob with the attempts of          *)
(*              executeCommand and what each leaves on the remote side     *)
(***************************************************************************)
EXTENDS Integers, Sequences, FiniteSets, TLC

\* ------------------------------------------------------------------ bounds
MaxJobs    == 2      \* records the ledger may hold
MaxTicks   == 1      \* milliseconds the wall clock advances between submissions
MaxInputs  == 1      \* auxiliary input files of one submission
MaxSessions == 2     \* remote-shell sessions ever opened
MaxSegments == 4     \* segments of a path handed to the path validator
MaxStamps == 2       \* successive generateJobId calls compared
MaxFetches == 2      \* result retrievals of one job, one after the other
MaxGpus == 3         \* GPUs a job may request
MaxCpus == 2         \* CPUs a job may request
MaxSubmits == 3      \* submissions that reach their sbatch step
RandomSteps == 8     \* values Math.random() takes: 0/8, 1/8, ..., 7/8
MaxElapsed == 61000  \* milliseconds a waiting caller is followed for
MaxProbeWait == 3000 \* milliseconds a liveness probe is followed for
ProbeStep == 500     \* milliseconds between two looks at a liveness probe

\* ------------------------------------------------------- program constants
maxRetries == 3          \* ConnectionManager.maxRetries
opMaxRetries == 2        \* options.maxRetries || 2
baseRetryDelay == 2000   \* ConnectionManager.baseRetryDelay, milliseconds
maxWait == 60000         \* waitForConnection: const maxWait
waitSleep == 500         \* waitForConnection: await this.sleep(500)
probeTimeout == 2000     \* isConnectionAlive: setTimeout(() => resolve(false), 2000)

Null == <<>>             \* JS null/undefined for optional fields

Tasks   == {"t1", "t2"}  \* editor commands that may be in flight together
SeqTask == "t1"

\* ------------------------------------------------------------------- state
VARIABLES
    ledger,      \* jobs.json: the persisted sequence of job records
    clock,       \* wall clock in milliseconds, as last read by generateJobId
    task,        \* per editor command: the running operation and its locals
    connection,  \* ConnectionManager.connection (Null or <<session>>)
    isConnecting,        \* ConnectionManager.isConnecting
    connectionAttempts,  \* ConnectionManager.connectionAttempts
    sessions,    \* session id -> "none" | "open" | "closed"
    keepAlive,   \* session id -> "off" | "armed" | "probing" (setInterval of setupKeepAlive)
    caller,      \* per caller of the connection layer: position and locals
    checked,     \* the path validator's last application: function, path, verdict
    stamps,      \* the clock readings of successive generateJobId calls, with the ids
    mirror,      \* downloadDirectory: the remote tree, the local copy, the pending calls
    script,      \* ScriptBuilder: the job configuration, the script built, its run
    sbatch,      \* the sbatch step of submitJob: its attempts and what they created
    dial,      \* connectWithRetry alone: its attempts and the backoff delays it slept
    waiter,      \* waitForConnection of one caller: its position and the time it has waited
    store,      \* jobs.json read through loadJobs: the operation in progress and what it loaded
    probe,      \* isConnectionAlive of one caller: its promise, its 2 s timer and the time since it began
    disconnected       \* disconnect() has returned and no acquisition has begun since

\* orchVars: what a step of the connection layer leaves alone;
\* connVars: what a step of the orchestrator leaves alone
orchVars == <<ledger, clock, task, checked, stamps, mirror, script, sbatch, dial, waiter, store, probe, disconnected>>
connVars == <<connection, isConnecting, connectionAttempts, sessions, keepAlive, caller,
              checked, stamps, mirror, script, sbatch, dial, waiter, store, probe, disconnected>>
\* what a step of a stand-alone component (validator, id generator) leaves alone
coreVars == <<ledger, clock, task,
              connection, isConnecting, connectionAttempts, sessions, keepAlive, caller>>
vars == <<ledger, clock, task,
          connection, isConnecting, connectionAttempts, sessions, keepAlive, caller,
          checked, stamps, mirror, script, sbatch, dial, waiter, store, probe, disconnected>>

\* ------------------------------------------------------------ pure helpers
Range(s) == {s[i] : i \in 1..Len(s)}

RECURSIVE SelectSeqBy(_, _)
\* Array.prototype.filter(j => j.id !== jobId)
SelectSeqBy(s, jobId) ==
    IF s = <<>> THEN <<>>
    ELSE IF Head(s).id # jobId THEN <<Head(s)>> \o SelectSeqBy(Tail(s), jobId)
         ELSE SelectSeqBy(Tail(s), jobId)

\* new Date().toISOString() cut at the dot, with "-" + milliseconds appended:
\* the id is the pair (whole seconds, milliseconds within the second)
generateJobId(now) == <<now \div 1000, now % 1000>>

jobsDir == <<"/scratch.hpc", "user", "hpc_jobs">>
RemoteJobDir(jobId) == jobsDir \o <<jobId>>

\* ------------------------------------------------- inputs and remote answers
\* what the user may submit: the file (base name and suffix, path.extname) and
\* the recipe parameters collected by the dialogs, valid and invalid
Submissions ==
    { [file |-> [base |-> "train", ext |-> ".py"],
       params |-> [pythonEnv |-> "base_env", optimizationLevel |-> ""]],
      [file |-> [base |-> "train", ext |-> ".py"],
       params |-> [pythonEnv |-> "", optimizationLevel |-> ""]],
      [file |-> [base |-> "main", ext |-> ".c"],
       params |-> [pythonEnv |-> "", optimizationLevel |-> "-Ofast"]],
      [file |-> [base |-> "notes", ext |-> ".txt"],
       params |-> [pythonEnv |-> "base_env", optimizationLevel |-> "-O3"]] }

\* `squeue -j <id> -o '%T' -h` standard output, as text pieces
SqueueOutputs == { <<>>, <<"\n">>, <<"RUNNING", "\n">>, <<" ", "PENDING", "\n">> }

\* `cat <dir>/status.json 2>/dev/null` standard output
\*   kind "empty"/"blank": file absent (stderr dropped) or whitespace only
\*   kind "garbage": text JSON.parse rejects
\*   kind "json": a document; status is its "status" member ("" when missing)
StatusFiles == { [kind |-> "empty",   status |-> ""],
                 [kind |-> "blank",   status |-> ""],
                 [kind |-> "garbage", status |-> ""],
                 [kind |-> "json",    status |-> "COMPLETED"],
                 [kind |-> "json",    status |-> "FAILED"],
                 [kind |-> "json",    status |-> "$JOB_STATUS"],
                 [kind |-> "json",    status |-> ""] }

Terminal == {"COMPLETED", "FAILED"}

\* String.prototype.trim on text pieces: strip whitespace pieces at both ends
IsSpace(x) == x \in {"\n", " "}
RECURSIVE TrimLeft(_)
TrimLeft(s) == IF s # <<>> /\ IsSpace(Head(s)) THEN TrimLeft(Tail(s)) ELSE s
RECURSIVE TrimRight(_)
TrimRight(s) ==
    IF s # <<>> /\ IsSpace(s[Len(s)]) THEN TrimRight(SubSeq(s, 1, Len(s) - 1)) ELSE s
Trim(s) == TrimRight(TrimLeft(s))

\* String.prototype.includes(ch) on the status strings of the model
IncludesChar(str, ch) ==
    \/ ch = "$" /\ str \in {"$JOB_STATUS"}
    \/ ch = "[" /\ str \in {"[object Object]"}

\* sbatch standard output as pieces: literal text, or a run of decimal digits
TextPiece(str) == [kind |-> "text", text |-> str, num |-> 0]
DigitsPiece(n) == [kind |-> "digits", text |-> "", num |-> n]

\* stdout.match(/Submitted batch job (\d+)/): the first number that directly
\* follows the success text, Null when there is none
RECURSIVE slurmIdOf(_)
slurmIdOf(stdout) ==
    IF Len(stdout) < 2 THEN Null
    ELSE IF /\ stdout[1].kind = "text" /\ stdout[1].text = "Submitted batch job "
            /\ stdout[2].kind = "digits"
         THEN <<stdout[2].num>>
         ELSE slurmIdOf(Tail(stdout))

\* ExecutorFactory.createExecutor: the recipe selected by suffix
createExecutor(file) ==
    CASE file.ext \in {".py", ".ipynb"} -> "python"
      [] file.ext \in {".c", ".cpp"}    -> "cpp"
      [] file.ext = ".cu"               -> "cuda"
      [] OTHER                          -> "unsupported"

\* PythonExecutor.validate / CppExecutor.validate: TRUE when accepted
validate(kind, params) ==
    CASE kind = "python" -> params.pythonEnv # ""
      [] kind = "cpp"    -> params.optimizationLevel \in {"-O0", "-O1", "-O2", "-O3"}
      [] OTHER           -> TRUE

\* ScriptBuilder.buildScript: "ok", or the error it throws
buildScript(file, params) ==
    IF createExecutor(file) = "unsupported" THEN "UnsupportedFileKind"
    ELSE IF ~validate(createExecutor(file), params) THEN "ValidationError"
    ELSE "ok"

\* ------------------------------------------------------------ storage layer
\* StorageManager.loadJobs: the parsed content of jobs.json
loadJobs == ledger

\* faulty variant: the scheduler id is not stored
NewJob_NoSlurmId(jobId, slurmId) ==
    [id |-> jobId, slurmId |-> Null, remoteDir |-> RemoteJobDir(jobId),
     status |-> "PENDING", statusData |-> Null]

\* the record submitJob pushes
NewJob(jobId, slurmId) ==
    [id |-> jobId, slurmId |-> slurmId, remoteDir |-> RemoteJobDir(jobId),
     status |-> "PENDING", statusData |-> Null]

\* ------------------------------------------------------------- task locals
IdleTask ==
    [op |-> "idle", pc |-> "idle", jobs |-> <<>>, idx |-> 0, obs |-> <<>>,
     jobId |-> Null, file |-> [base |-> "", ext |-> ""],
     params |-> [pythonEnv |-> "", optimizationLevel |-> ""],
     nInputs |-> 0, uploaded |-> 0, dirMade |-> FALSE, accepted |-> FALSE,
     trace |-> <<>>,
     result |-> "none", returned |-> <<>>, completed |-> <<>>]

\* a finished operation hands its result over before anything else runs
NoneDone == \A u \in Tasks : task[u].pc # "done"

\* deleteJob has no await: it runs between two commands
AllIdle == \A u \in Tasks : task[u].pc = "idle"

\* a thrown error ends the operation; nothing else is written
Throw(t, err) == task' = [task EXCEPT ![t].pc = "done", ![t].result = err]

\* the caller of the operation takes the result; the locals are dropped
Return(t) ==
    /\ task[t].pc = "done"
    /\ task' = [task EXCEPT ![t] = IdleTask]
    /\ UNCHANGED <<ledger, clock>>
    /\ UNCHANGED connVars

\* --------------------------------------------------------------- submitJob
\* path.basename + generateJobId + the locals set before the first await;
\* dt is the time that passed since the clock was last read
SubmitStart(t, sub, n, dt) ==
    /\ NoneDone
    /\ task[t].pc = "idle"
    /\ Len(ledger) + Cardinality({u \in Tasks : task[u].op = "submit"}) < MaxJobs
    /\ clock + dt <= 999 + MaxTicks
    /\ clock' = clock + dt
    /\ task' = [task EXCEPT ![t] =
                  [IdleTask EXCEPT !.op = "submit", !.pc = "mkdir",
                                   !.jobId = generateJobId(clock'),
                                   !.file = sub.file, !.params = sub.params,
                                   !.nInputs = n]]
    /\ UNCHANGED ledger
    /\ UNCHANGED connVars

\* await executeCommand(`mkdir -p <dir>`): the exit code is not looked at
SubmitMkdir(t, out) ==
    /\ NoneDone
    /\ task[t].op = "submit" /\ task[t].pc = "mkdir"
    /\ IF out = "throw" THEN Throw(t, "CommandFailure")
       ELSE task' = [task EXCEPT ![t].pc = "uploadMain",
                                 ![t].dirMade = (out = "ok"),
                                 ![t].trace = Append(@, "mkdir")]
    /\ UNCHANGED <<ledger, clock>>
    /\ UNCHANGED connVars

\* what follows the last file upload without an await: buildScript, then the
\* temporary script file is written and its upload started
AfterFileUploads(t, tr) ==
    IF buildScript(task[t].file, task[t].params) # "ok"
    THEN task' = [task EXCEPT ![t].pc = "done", ![t].trace = tr,
                              ![t].result = buildScript(task[t].file, task[t].params)]
    ELSE task' = [task EXCEPT ![t].pc = "uploadScript", ![t].trace = tr]

\* await uploadFile(filePath, remoteFilePath)
SubmitUploadMain(t, out) ==
    /\ NoneDone
    /\ task[t].op = "submit" /\ task[t].pc = "uploadMain"
    /\ out = "ok" => task[t].dirMade
    /\ IF out = "throw" THEN Throw(t, "TransferFailure")
       ELSE IF task[t].nInputs > 0
            THEN task' = [task EXCEPT ![t].pc = "uploadInput",
                                      ![t].trace = Append(@, "put main")]
            ELSE AfterFileUploads(t, Append(task[t].trace, "put main"))
    /\ UNCHANGED <<ledger, clock>>
    /\ UNCHANGED connVars

\* for (const inputFile of inputFiles) await uploadFile(inputFile, ...)
SubmitUploadInput(t, out) ==
    /\ NoneDone
    /\ task[t].op = "submit" /\ task[t].pc = "uploadInput"
    /\ out = "ok" => task[t].dirMade
    /\ IF out = "throw" THEN Throw(t, "TransferFailure")
       ELSE IF task[t].uploaded + 1 < task[t].nInputs
            THEN task' = [task EXCEPT ![t].uploaded = @ + 1,
                                      ![t].trace = Append(@, "put input")]
            ELSE AfterFileUploads(t, Append(task[t].trace, "put input"))
    /\ UNCHANGED <<ledger, clock>>
    /\ UNCHANGED connVars

\* await uploadFile(localScriptPath, remoteScriptPath)
SubmitUploadScript(t, out) ==
    /\ NoneDone
    /\ task[t].op = "submit" /\ task[t].pc = "uploadScript"
    /\ out = "ok" => task[t].dirMade
    /\ IF out = "throw" THEN Throw(t, "TransferFailure")
       ELSE task' = [task EXCEPT ![t].pc = "sbatch",
                                 ![t].trace = Append(@, "put job.sbatch")]
    /\ UNCHANGED <<ledger, clock>>
    /\ UNCHANGED connVars

\* standard output of `cd <dir> && sbatch job.sbatch`
SbatchStdout(out, n) ==
    IF out = "accepted"
    THEN <<TextPiece("Submitted batch job "), DigitsPiece(n), TextPiece("\n")>>
    ELSE <<>>

\* jobs.push({...}); saveJobs(jobs)
\* faulty variant: the new record replaces the ledger
PushJob_Overwrite(jobs, jobId, slurmId) == <<NewJob(jobId, slurmId)>>

PushJob(jobs, jobId, slurmId) == Append(jobs, NewJob(jobId, slurmId))

\* the id the scheduler gives an accepted job: one no known job carries
RECURSIVE FreshFrom(_, _)
FreshFrom(jobs, n) ==
    IF \E i \in 1..Len(jobs) : jobs[i].slurmId = <<n>> THEN FreshFrom(jobs, n + 1) ELSE n
FreshSlurmId(jobs) == FreshFrom(jobs, 1)

\* await executeCommand(`cd <dir> && sbatch job.sbatch`), then without a further
\* await: parse the scheduler id, loadJobs, push, saveJobs
\*   "accepted"  the scheduler queues the job and prints the success text
\*   "rejected"  sbatch exits non-zero with nothing on standard output
\*   "throw"     executeCommand rejects (connection or timeout error)
SubmitSbatch(t, out) ==
    /\ NoneDone
    /\ task[t].op = "submit" /\ task[t].pc = "sbatch"
    /\ IF out = "throw"
       THEN Throw(t, "CommandFailure") /\ UNCHANGED ledger
       ELSE /\ ledger' = PushJob(loadJobs, task[t].jobId,
                                 slurmIdOf(SbatchStdout(out, FreshSlurmId(loadJobs))))
            /\ task' = [task EXCEPT ![t].pc = "done", ![t].result = "ok",
                                    ![t].accepted = (out = "accepted"),
                                    ![t].trace = Append(@, "sbatch")]
    /\ UNCHANGED clock
    /\ UNCHANGED connVars

submitJob(t) ==
    \/ \E sub \in Submissions, n \in 0..MaxInputs, dt \in 0..1 :
           SubmitStart(t, sub, n, dt)
    \/ \E out \in {"ok", "exit1", "throw"} : SubmitMkdir(t, out)
    \/ \E out \in {"ok", "throw"} : SubmitUploadMain(t, out)
    \/ \E out \in {"ok", "throw"} : SubmitUploadInput(t, out)
    \/ \E out \in {"ok", "throw"} : SubmitUploadScript(t, out)
    \/ \E out \in {"accepted", "rejected", "throw"} : SubmitSbatch(t, out)

\* ------------------------------------------------------------ getJobStatus
\* the loop condition: job.slurmId && status is neither COMPLETED nor FAILED
\* faulty variant: UNKNOWN is treated as final
NeedsQuery_UnknownFinal(job) ==
    job.slurmId # Null /\ job.status \notin {"COMPLETED", "FAILED", "UNKNOWN"}

\* faulty variant: a job without a scheduler id is queried too
NeedsQuery_WithoutId(job) == job.status \notin {"COMPLETED", "FAILED"}

\* faulty variant: terminal jobs are queried again
NeedsQuery_IgnoringTerminal(job) == job.slurmId # Null

NeedsQuery(job) == job.slurmId # Null /\ job.status \notin Terminal

\* the for loop runs without an await over the jobs that need no query:
\* index of the next job to query from i on, Len(jobs) + 1 when none is left
RECURSIVE NextQuery(_, _)
NextQuery(jobs, i) ==
    IF i > Len(jobs) THEN i
    ELSE IF NeedsQuery(jobs[i]) THEN i
    ELSE NextQuery(jobs, i + 1)

\* faulty variant: only COMPLETED jobs are left out of the active view
ActiveJobs_NotCompleted(jobs) == SelectSeq(jobs, LAMBDA j : j.status # "COMPLETED")

\* jobs.filter(j => j.status !== 'COMPLETED' && j.status !== 'FAILED')
ActiveJobs(jobs) == SelectSeq(jobs, LAMBDA j : j.status \notin Terminal)
\* jobs.filter(j => j.status === 'COMPLETED')
CompletedJobs(jobs) == SelectSeq(jobs, LAMBDA j : j.status = "COMPLETED")

\* downloadJobResults / viewCompletedJobs: the jobs showJobPicker offers are
\* those getCompletedJobs returned; with none, a warning and no picker
JobPickerItems(completedJobs) == Range(completedJobs)


\* the pass goes on from job i + 1 with the local copy `jobs`; when no job is
\* left to query the loop ends and, without an await, saveJobs(jobs) runs and
\* the active view is returned; `completed` is what getCompletedJobs returns
\* after its own pass: the COMPLETED records of the ledger it reloads
PollAdvance(t, jobs, obs) ==
    LET nxt == NextQuery(jobs, task[t].idx + 1) IN
    IF nxt <= Len(jobs)
    THEN /\ task' = [task EXCEPT ![t].jobs = jobs, ![t].obs = obs,
                                 ![t].idx = nxt, ![t].pc = "squeue"]
         /\ UNCHANGED ledger
    ELSE /\ ledger' = jobs
         /\ task' = [task EXCEPT ![t].jobs = jobs, ![t].obs = obs, ![t].idx = nxt,
                                 ![t].pc = "done", ![t].result = "ok",
                                 ![t].returned = ActiveJobs(jobs),
                                 ![t].completed = CompletedJobs(ledger')]

\* const jobs = this.loadJobs(), then the loop up to its first await
PollStart(t) ==
    /\ NoneDone
    /\ task[t].pc = "idle"
    /\ LET jobs == loadJobs
           nxt  == NextQuery(jobs, 1)
           obs  == [i \in 1..Len(jobs) |-> "none"] IN
       IF nxt <= Len(jobs)
       THEN /\ task' = [task EXCEPT ![t] =
                          [IdleTask EXCEPT !.op = "poll", !.pc = "squeue",
                                           !.jobs = jobs, !.obs = obs, !.idx = nxt]]
            /\ UNCHANGED ledger
       ELSE /\ ledger' = jobs
            /\ task' = [task EXCEPT ![t] =
                          [IdleTask EXCEPT !.op = "poll", !.pc = "done",
                                           !.jobs = jobs, !.obs = obs, !.idx = nxt,
                                           !.result = "ok",
                                           !.returned = ActiveJobs(jobs),
                                           !.completed = CompletedJobs(ledger')]]
    /\ UNCHANGED clock
    /\ UNCHANGED connVars

\* faulty variant: the answer is taken as it came
QueueStatus_Untrimmed(stdout) == stdout[1]

\* the status a non-empty squeue answer gives: stdout.trim()
QueueStatus(stdout) == Trim(stdout)[1]

\* await executeCommand(`squeue -j <slurmId> -o '%T' -h`)
\*   threw: the outer catch sets UNKNOWN; non-empty: the reported state;
\*   empty: the metadata file is read next
PollSqueue(t, threw, stdout) ==
    /\ NoneDone
    /\ task[t].op = "poll" /\ task[t].pc = "squeue"
    /\ LET i == task[t].idx IN
       IF threw
       THEN PollAdvance(t, [task[t].jobs EXCEPT ![i].status = "UNKNOWN"],
                           [task[t].obs EXCEPT ![i] = "unresolved"])
       ELSE IF Trim(stdout) # <<>>
       THEN PollAdvance(t, [task[t].jobs EXCEPT ![i].status = QueueStatus(stdout)],
                           [task[t].obs EXCEPT ![i] = "queue"])
       ELSE /\ task' = [task EXCEPT ![t].pc = "cat"]
            /\ UNCHANGED ledger
    /\ UNCHANGED clock
    /\ UNCHANGED connVars

\* the branch taken on the metadata file's content
\*   JSON.parse throws on "garbage"; a document without a string status, or
\*   with a placeholder in it, is literal-invalid
\* faulty variant: the parsed document replaces the record's scheduler id
StatusFromFile_Merging(job, file) ==
    IF file.kind # "json" THEN [job EXCEPT !.status = "UNKNOWN"]
    ELSE [job EXCEPT !.status = "COMPLETED", !.statusData = <<file>>, !.slurmId = Null]

\* faulty variant: a parse failure leaves the job as it was
StatusFromFile_NoCatch(job, file) ==
    IF file.kind # "json" THEN job ELSE [job EXCEPT !.status = "COMPLETED"]

\* faulty variant: the status is adopted without the document
StatusFromFile_NoSnapshot(job, file) ==
    IF file.kind # "json" THEN [job EXCEPT !.status = "UNKNOWN"]
    ELSE IF file.status \in {"COMPLETED", "FAILED"} THEN [job EXCEPT !.status = file.status]
    ELSE [job EXCEPT !.status = "COMPLETED"]

\* faulty variant: a literal-invalid document leaves the job unresolved
StatusFromFile_InvalidUnknown(job, file) ==
    IF file.kind # "json" THEN [job EXCEPT !.status = "UNKNOWN"]
    ELSE IF file.status \in {"COMPLETED", "FAILED"}
         THEN [job EXCEPT !.status = file.status, !.statusData = <<file>>]
         ELSE [job EXCEPT !.status = "UNKNOWN"]

StatusFromFile(job, file) ==
    IF file.kind \in {"empty", "blank"} THEN [job EXCEPT !.status = "UNKNOWN"]
    ELSE IF file.kind = "garbage" THEN [job EXCEPT !.status = "UNKNOWN"]
    ELSE IF /\ file.status # ""
            /\ ~IncludesChar(file.status, "$")
            /\ ~IncludesChar(file.status, "[")
         THEN [job EXCEPT !.status = file.status, !.statusData = <<file>>]
         ELSE [job EXCEPT !.status = "COMPLETED"]

\* what the pass saw of the job: no usable document ("unresolved"), a document
\* with a literal status ("file"), or one without ("invalid")
FileObs(file) ==
    IF file.kind # "json" THEN "unresolved"
    ELSE IF file.status \in Terminal THEN "file" ELSE "invalid"

\* await executeCommand(`cat <remoteDir>/status.json 2>/dev/null`)
PollCat(t, threw, file) ==
    /\ NoneDone
    /\ task[t].op = "poll" /\ task[t].pc = "cat"
    /\ LET i == task[t].idx IN
       IF threw
       THEN PollAdvance(t, [task[t].jobs EXCEPT ![i].status = "UNKNOWN"],
                           [task[t].obs EXCEPT ![i] = "unresolved"])
       ELSE PollAdvance(t, [task[t].jobs EXCEPT ![i] = StatusFromFile(@, file)],
                           [task[t].obs EXCEPT ![i] = FileObs(file)])
    /\ UNCHANGED clock
    /\ UNCHANGED connVars

getJobStatus(t) ==
    \/ PollStart(t)
    \/ \E stdout \in SqueueOutputs : PollSqueue(t, FALSE, stdout)
    \/ PollSqueue(t, TRUE, <<>>)
    \/ \E file \in StatusFiles : PollCat(t, FALSE, file)
    \/ PollCat(t, TRUE, [kind |-> "empty", status |-> ""])

\* ---------------------------------- getJobDetails, fetchResults, cleanRemoteJob
\* jobs.find(j => j.id === jobId): index of the first match, 0 when none
RECURSIVE FindFrom(_, _, _)
FindFrom(jobs, jobId, i) ==
    IF i > Len(jobs) THEN 0
    ELSE IF jobs[i].id = jobId THEN i
    ELSE FindFrom(jobs, jobId, i + 1)
\* faulty variant: an id that is not found falls back to the first record
FindJob_FirstOnMiss(jobs, jobId) ==
    IF FindFrom(jobs, jobId, 1) = 0 /\ Len(jobs) > 0 THEN 1 ELSE FindFrom(jobs, jobId, 1)

FindJob(jobs, jobId) == FindFrom(jobs, jobId, 1)

\* loadJobs, find, `throw new Error('Job ... not found')`, else up to the first await
LookupStart(t, op, pc, jobId) ==
    /\ NoneDone
    /\ task[t].pc = "idle"
    /\ LET jobs == loadJobs
           i    == FindJob(jobs, jobId) IN
       IF i = 0
       THEN task' = [task EXCEPT ![t] =
                       [IdleTask EXCEPT !.op = op, !.pc = "done", !.jobId = jobId,
                                        !.result = "JobNotFound"]]
       ELSE task' = [task EXCEPT ![t] =
                       [IdleTask EXCEPT !.op = op, !.pc = pc, !.jobId = jobId,
                                        !.jobs = <<jobs[i]>>]]
    /\ UNCHANGED <<ledger, clock>>
    /\ UNCHANGED connVars

\* await executeCommand(`cat <remoteDir>/status.json 2>/dev/null`): a parsed
\* document is attached to the local copy; every error is swallowed
DetailsCat(t, threw, file) ==
    /\ NoneDone
    /\ task[t].op = "details" /\ task[t].pc = "cat"
    /\ task' = [task EXCEPT ![t].pc = "tail",
                            ![t].trace = Append(@, "cat status.json"),
                            ![t].jobs[1].statusData =
                                IF ~threw /\ file.kind = "json" THEN <<file>> ELSE @]
    /\ UNCHANGED <<ledger, clock>>
    /\ UNCHANGED connVars

\* await executeCommand(`tail -n 50 <remoteDir>/slurm-*.out ...`); return job
DetailsTail(t, threw) ==
    /\ NoneDone
    /\ task[t].op = "details" /\ task[t].pc = "tail"
    /\ task' = [task EXCEPT ![t].pc = "done", ![t].result = "ok",
                            ![t].trace = Append(@, "tail slurm-*.out"),
                            ![t].returned = task[t].jobs]
    /\ UNCHANGED <<ledger, clock>>
    /\ UNCHANGED connVars

getJobDetails(t) ==
    \/ \E jobId \in {r.id : r \in Range(ledger)} \cup {<<0, 0>>} :
           LookupStart(t, "details", "cat", jobId)
    \/ \E file \in StatusFiles : DetailsCat(t, FALSE, file)
    \/ DetailsCat(t, TRUE, [kind |-> "empty", status |-> ""])
    \/ \E threw \in BOOLEAN : DetailsTail(t, threw)

\* await this.downloadDirectory(job.remoteDir, resultsDir)
FetchDownload(t, threw) ==
    /\ NoneDone
    /\ task[t].op = "fetch" /\ task[t].pc = "download"
    /\ task' = [task EXCEPT ![t].pc = "done",
                            ![t].trace = Append(@, "download"),
                            ![t].result = IF threw THEN "TransferFailure" ELSE "ok"]
    /\ UNCHANGED <<ledger, clock>>
    /\ UNCHANGED connVars

fetchResults(t) ==
    \/ \E jobId \in {r.id : r \in Range(ledger)} \cup {<<0, 0>>} :
           LookupStart(t, "fetch", "download", jobId)
    \/ \E threw \in BOOLEAN : FetchDownload(t, threw)

\* await this.executeCommand(`rm -rf <remoteDir>`)
CleanRm(t, threw) ==
    /\ NoneDone
    /\ task[t].op = "clean" /\ task[t].pc = "rm"
    /\ task' = [task EXCEPT ![t].pc = "done",
                            ![t].trace = Append(@, "rm -rf"),
                            ![t].result = IF threw THEN "CommandFailure" ELSE "ok"]
    /\ UNCHANGED <<ledger, clock>>
    /\ UNCHANGED connVars

cleanRemoteJob(t) ==
    \/ \E jobId \in {r.id : r \in Range(ledger)} \cup {<<0, 0>>} :
           LookupStart(t, "clean", "rm", jobId)
    \/ \E threw \in BOOLEAN : CleanRm(t, threw)

\* StorageManager.deleteJob: synchronous load, filter, save
deleteJob(jobId) ==
    /\ ledger' = SelectSeqBy(loadJobs, jobId)
    /\ UNCHANGED <<clock, task>>
    /\ UNCHANGED connVars

DeleteSome == \E jobId \in {r.id : r \in Range(ledger)} \cup {<<0, 0>>} : deleteJob(jobId)

\* ========================================================= connection layer
Callers == {"a", "b"}

\* Error.message as text pieces; String.prototype.includes looks for a piece
Includes(msg, phrase) == \E i \in 1..Len(msg) : msg[i] = phrase

\* handshake failures an attempt may end with (ssh2 'error' event, or the
\* 30 s timer of establishConnection)
AuthFailed  == <<"All configured authentication methods failed">>
SshTimeout  == <<"SSH_TIMEOUT">>
ConnRefused == <<"connect ", "ECONNREFUSED", " 10.0.0.1:22">>
\* thrown by config.validate() at the start of establishConnection
ConfigMissing == <<"Missing configuration. Please set cluster host and username in VSCode settings.">>
HandshakeErrors == {AuthFailed, SshTimeout, ConnRefused}
ConnectErrors == HandshakeErrors \cup {ConfigMissing}
Ready == <<"ready">>

\* errors of a command or transfer on a session
CommandTimeout == <<"Command timeout after ", "60000", "ms">>
NotConnected   == <<"Not connected">>
NullDeref      == <<"Cannot read properties of null">>
SftpFailure    == <<"No such file">>

NoError == [msg |-> <<>>, originalError |-> <<>>]
Error(msg) == [msg |-> msg, originalError |-> <<>>]

\* faulty variant: no failure counts as an authentication failure
isAuthenticationError_Never(error) == FALSE

\* ConnectionManager.isAuthenticationError
isAuthenticationError(error) ==
    \E phrase \in {"All configured authentication methods failed", "NO_SSH_KEY",
                   "Authentication failed", "Permission denied"} :
        Includes(error.msg, phrase)

\* ConnectionManager.enrichError: the message with the remediation text keyed
\* by error category appended, and the original error attached
enrichError(error) ==
    LET suggestions ==
            IF Includes(error.msg, "NO_SSH_KEY") THEN <<"Create SSH key">>
            ELSE IF Includes(error.msg, "SSH_TIMEOUT") THEN <<"Check network connection">>
            ELSE IF Includes(error.msg, "ECONNREFUSED") THEN <<"Verify host address">>
            ELSE IF Includes(error.msg, "ENOTFOUND") THEN <<"Check host name spelling">>
            ELSE <<>>
    IN [msg |-> error.msg \o suggestions, originalError |-> error.msg]

IdleCaller ==
    [pc |-> "idle", kind |-> "", opAttempt |-> 0, attempt |-> 0, held |-> Null,
     probed |-> 0, hsLog |-> <<>>, delays |-> 0, error |-> NoError, result |-> "none"]

InLoop(c) == caller[c].pc \in {"handshake", "backoff"}

\* what follows a return or a throw without an await in between (the use of
\* the connection, the catch block, the hand-over of the result) runs before
\* any other callback
NoneEnded == \A c \in Callers : caller[c].pc \notin {"acquired", "caught", "done"}

\* faulty variant: an acquisition in progress is not waited for
getConnection_NoWait(rec) ==
    [caller |-> [rec EXCEPT !.pc = IF connection # Null THEN "probe" ELSE "handshake",
                            !.probed = IF connection # Null THEN connection[1] ELSE 0,
                            !.hsLog = <<>>, !.delays = 0, !.held = Null, !.attempt = 0,
                            !.error = NoError],
     isConnecting |-> IF connection # Null THEN isConnecting ELSE TRUE,
     connectionAttempts |-> IF connection # Null THEN connectionAttempts ELSE 1]

\* ConnectionManager.getConnection up to its first await, for the caller
\* record rec: probe the cached connection, else wait for the acquisition in
\* progress, else start connectWithRetry (isConnecting = true, attempt 0)
getConnection(rec) ==
    LET fresh == [rec EXCEPT !.hsLog = <<>>, !.delays = 0, !.held = Null, !.attempt = 0,
                             !.error = NoError] IN
    IF connection # Null
    THEN [caller |-> [fresh EXCEPT !.pc = "probe", !.probed = connection[1]],
          isConnecting |-> isConnecting, connectionAttempts |-> connectionAttempts]
    ELSE IF isConnecting
    THEN [caller |-> [fresh EXCEPT !.pc = "wait"],
          isConnecting |-> isConnecting, connectionAttempts |-> connectionAttempts]
    ELSE [caller |-> [fresh EXCEPT !.pc = "handshake"],
          isConnecting |-> TRUE, connectionAttempts |-> 1]

\* getConnection after the liveness probe said "not alive"
afterProbeFailed(rec) ==
    IF isConnecting
    THEN [caller |-> [rec EXCEPT !.pc = "wait"],
          isConnecting |-> isConnecting, connectionAttempts |-> connectionAttempts]
    ELSE [caller |-> [rec EXCEPT !.pc = "handshake"],
          isConnecting |-> TRUE, connectionAttempts |-> 1]

\* getConnection returns conn to the call
returnConnection(rec, conn) == [rec EXCEPT !.pc = "acquired", !.held = conn, !.attempt = 0, !.probed = 0]

\* err is thrown inside the try block of the call
throwError(rec, err) ==
    [rec EXCEPT !.pc = "caught", !.error = err, !.held = Null, !.attempt = 0, !.probed = 0]

\* faulty variant: the catch block never clears the cached connection
catchResets_Never(rec) == FALSE

\* whether the catch block clears the cached connection
catchResets(rec) ==
    CASE rec.kind = "exec" ->
             Includes(rec.error.msg, "Connection") \/ Includes(rec.error.msg, "ETIMEDOUT")
      [] rec.kind = "upload" -> rec.opAttempt # opMaxRetries - 1
      [] OTHER -> FALSE

\* clusterManager.connect() is done with the connection; executeCommand and
\* uploadFile start their command or transfer on it
UseConnection(c) ==
    /\ caller[c].pc = "acquired"
    /\ caller' = [caller EXCEPT ![c] =
                     IF @.kind = "connect"
                     THEN [@ EXCEPT !.pc = "done", !.result = "ok", !.hsLog = <<>>, !.delays = 0]
                     ELSE [@ EXCEPT !.pc = "run", !.hsLog = <<>>, !.delays = 0]]
    /\ UNCHANGED <<connection, isConnecting, connectionAttempts, sessions, keepAlive>>
    /\ UNCHANGED orchVars

\* the catch block of executeCommand / uploadFile (clusterManager.connect has
\* none): maybe drop the cached connection, rethrow on the last attempt
Catch(c) ==
    /\ caller[c].pc = "caught"
    /\ connection' = IF catchResets(caller[c]) THEN Null ELSE connection
    /\ caller' = [caller EXCEPT ![c] =
                     IF @.kind = "connect" \/ @.opAttempt = opMaxRetries - 1
                     THEN [@ EXCEPT !.pc = "done", !.result = "error", !.hsLog = <<>>, !.delays = 0]
                     ELSE [@ EXCEPT !.pc = "pause", !.error = NoError, !.hsLog = <<>>, !.delays = 0]]
    /\ UNCHANGED <<isConnecting, connectionAttempts, sessions, keepAlive>>
    /\ UNCHANGED orchVars

\* a call of executeCommand, uploadFile, downloadFile or connect begins
CallStart(c, kind) ==
    /\ NoneEnded
    /\ caller[c].pc = "idle"
    /\ LET r == getConnection([IdleCaller EXCEPT !.kind = kind]) IN
       /\ caller' = [caller EXCEPT ![c] = r.caller]
       /\ isConnecting' = r.isConnecting
       /\ connectionAttempts' = r.connectionAttempts
    /\ UNCHANGED <<connection, sessions, keepAlive>>
    /\ UNCHANGED orchVars

\* await this.isConnectionAlive(): `echo "ping"` on the probed session answers
\* within 2 s (alive, only an open session can) or does not
ProbeDone(c, alive) ==
    /\ NoneEnded
    /\ caller[c].pc = "probe"
    /\ alive => sessions[caller[c].probed] = "open"
    /\ IF alive
       THEN /\ caller' = [caller EXCEPT ![c] = returnConnection(@, connection)]
            /\ UNCHANGED <<isConnecting, connectionAttempts>>
       ELSE LET r == afterProbeFailed(caller[c]) IN
            /\ caller' = [caller EXCEPT ![c] = r.caller]
            /\ isConnecting' = r.isConnecting
            /\ connectionAttempts' = r.connectionAttempts
    /\ UNCHANGED <<connection, sessions, keepAlive>>
    /\ UNCHANGED orchVars


\* waitForConnection gives up: more than 60 s with isConnecting still set
WaitTimeout(c) ==
    /\ NoneEnded
    /\ caller[c].pc = "wait"
    /\ isConnecting
    /\ caller' = [caller EXCEPT ![c] =
                     throwError(@, Error(<<"Timeout waiting for connection">>))]
    /\ UNCHANGED <<connection, isConnecting, connectionAttempts, sessions, keepAlive>>
    /\ UNCHANGED orchVars

\* waitForConnection sees isConnecting cleared: the cached connection, or
\* Error('Connection failed') when there is none
WaitDone(c) ==
    /\ NoneEnded
    /\ caller[c].pc = "wait"
    /\ ~isConnecting
    /\ caller' = [caller EXCEPT ![c] =
                     IF connection # Null
                     THEN returnConnection(@, connection)
                     ELSE throwError(@, Error(<<"Connection", " failed">>))]
    /\ UNCHANGED <<connection, isConnecting, connectionAttempts, sessions, keepAlive>>
    /\ UNCHANGED orchVars

\* faulty variant: one attempt more
retryAfter_OneMore(attempt) == attempt < maxRetries

\* connectWithRetry: a failed attempt is followed by a backoff and another
\* attempt (for attempt < maxRetries counted from 0)
retryAfter(attempt) == attempt < maxRetries - 1

FreshSession == CHOOSE s \in 1..MaxSessions :
                    /\ sessions[s] = "none"
                    /\ \A r \in 1..(s - 1) : sessions[r] # "none"

TimerOff == [timer |-> FALSE, probing |-> FALSE, target |-> 0]
TimerArmed == [timer |-> TRUE, probing |-> FALSE, target |-> 0]

\* faulty variant: an authentication failure leaves the flag set
clearsFlag_NotOnAuth(out, attempt) ==
    out = Ready \/ (~isAuthenticationError(Error(out)) /\ ~retryAfter(attempt))

\* whether connectWithRetry sets this.isConnecting = false after an attempt
\* that ended with out: on success, on an authentication error, and when no
\* attempt is left
clearsFlag(out, attempt) ==
    out = Ready \/ isAuthenticationError(Error(out)) \/ ~retryAfter(attempt)

\* one attempt of connectWithRetry ends: establishConnection resolved on
\* 'ready' (keep-alive armed, connection cached, flag cleared) or rejected,
\* by the handshake or by config.validate() before it
Handshake(c, out) ==
    /\ NoneEnded
    /\ caller[c].pc = "handshake"
    /\ LET rec == [caller[c] EXCEPT !.hsLog = Append(@, out)] IN
       IF out = Ready
       THEN /\ \E s \in 1..MaxSessions : sessions[s] = "none"
            /\ sessions' = [sessions EXCEPT ![FreshSession] = "open"]
            /\ keepAlive' = [keepAlive EXCEPT ![FreshSession] = TimerArmed]
            /\ connection' = <<FreshSession>>
            /\ connectionAttempts' = 0
            /\ isConnecting' = IF clearsFlag(out, rec.attempt) THEN FALSE ELSE isConnecting
            /\ caller' = [caller EXCEPT ![c] = returnConnection(rec, <<FreshSession>>)]
       ELSE /\ out \in ConnectErrors
            /\ UNCHANGED <<sessions, keepAlive, connectionAttempts, connection>>
            /\ isConnecting' = IF clearsFlag(out, rec.attempt) THEN FALSE ELSE isConnecting
            /\ IF isAuthenticationError(Error(out)) \/ ~retryAfter(rec.attempt)
               THEN caller' = [caller EXCEPT ![c] = throwError(rec, enrichError(Error(out)))]
               ELSE caller' = [caller EXCEPT ![c] =
                                  [rec EXCEPT !.pc = "backoff", !.delays = @ + 1]]
    /\ UNCHANGED orchVars

\* the backoff sleep of connectWithRetry is over: next attempt
Backoff(c) ==
    /\ NoneEnded
    /\ caller[c].pc = "backoff"
    /\ caller' = [caller EXCEPT ![c] = [@ EXCEPT !.pc = "handshake", !.attempt = @ + 1]]
    /\ connectionAttempts' = caller[c].attempt + 2
    /\ UNCHANGED <<connection, isConnecting, sessions, keepAlive>>
    /\ UNCHANGED orchVars

\* outcomes of a command or transfer on the connection the caller holds
RunOutcomes(rec) ==
    IF rec.held = Null THEN {NullDeref}
    ELSE IF sessions[rec.held[1]] # "open" THEN {NotConnected}
    ELSE IF rec.kind = "exec" THEN {<<"ok">>, CommandTimeout}
    ELSE {<<"ok">>, SftpFailure}

\* executeCommandOnConnection / uploadFileOnConnection /
\* downloadFileOnConnection settles, then the catch block of the caller
RunDone(c, out) ==
    /\ NoneEnded
    /\ caller[c].pc = "run"
    /\ out \in RunOutcomes(caller[c])
    /\ caller' = [caller EXCEPT ![c] =
                     IF out = <<"ok">>
                     THEN [@ EXCEPT !.pc = "done", !.result = "ok", !.held = Null]
                     ELSE throwError(@, Error(out))]
    /\ UNCHANGED <<connection, isConnecting, connectionAttempts, sessions, keepAlive>>
    /\ UNCHANGED orchVars

\* sleep(1000) between attempts of a call is over: next attempt
Pause(c) ==
    /\ NoneEnded
    /\ caller[c].pc = "pause"
    /\ LET r == getConnection([caller[c] EXCEPT !.opAttempt = @ + 1]) IN
       /\ caller' = [caller EXCEPT ![c] = r.caller]
       /\ isConnecting' = r.isConnecting
       /\ connectionAttempts' = r.connectionAttempts
    /\ UNCHANGED <<connection, sessions, keepAlive>>
    /\ UNCHANGED orchVars

\* the call returned or threw to its caller
CallEnd(c) ==
    /\ caller[c].pc = "done"
    /\ caller' = [caller EXCEPT ![c] = IdleCaller]
    /\ UNCHANGED <<connection, isConnecting, connectionAttempts, sessions, keepAlive>>
    /\ UNCHANGED orchVars

\* 'close' event of session s: both close handlers run
SessionClose(s) ==
    /\ NoneEnded
    /\ sessions[s] \in {"open", "ended"}
    /\ sessions' = [sessions EXCEPT ![s] = "closed"]
    /\ connection' = IF connection = <<s>> THEN Null ELSE connection
    /\ keepAlive' = [keepAlive EXCEPT ![s] = [@ EXCEPT !.timer = FALSE]]
    /\ UNCHANGED <<isConnecting, connectionAttempts, caller>>
    /\ UNCHANGED orchVars

\* the 30 s interval of session s fires: isConnectionAlive on whatever
\* connection is cached now; with none cached it answers false without
\* waiting for anything, and the interval is cleared in the same turn
KeepAliveTick(s) ==
    /\ NoneEnded
    /\ keepAlive[s].timer
    /\ ~keepAlive[s].probing
    /\ keepAlive' = [keepAlive EXCEPT ![s] =
                        IF connection = Null
                        THEN TimerOff
                        ELSE [@ EXCEPT !.probing = TRUE, !.target = connection[1]]]
    /\ UNCHANGED <<connection, isConnecting, connectionAttempts, sessions, caller>>
    /\ UNCHANGED orchVars

\* faulty variant: the health check leaves the cached connection in place
cachedAfterCheck_Kept(alive) == connection

\* this.connection after the callback of setInterval: if (!await
\* this.isConnectionAlive()) { ...; this.connection = null; }
cachedAfterCheck(alive) == IF alive THEN connection ELSE Null

\* the keep-alive probe of session s settles: on "not alive" the interval is
\* cleared and the cached connection dropped
KeepAliveDone(s, alive) ==
    /\ NoneEnded
    /\ keepAlive[s].probing
    /\ alive => /\ keepAlive[s].target # 0
                /\ sessions[keepAlive[s].target] = "open"
    /\ IF alive
       THEN keepAlive' = [keepAlive EXCEPT ![s] = [@ EXCEPT !.probing = FALSE, !.target = 0]]
       ELSE keepAlive' = [keepAlive EXCEPT ![s] = TimerOff]
    /\ connection' = cachedAfterCheck(alive)
    /\ UNCHANGED <<isConnecting, connectionAttempts, sessions, caller>>
    /\ UNCHANGED orchVars

\* ConnectionManager.disconnect
disconnect ==
    /\ NoneEnded
    /\ connection # Null
    /\ sessions' = [sessions EXCEPT ![connection[1]] = IF @ = "open" THEN "ended" ELSE @]
    /\ connection' = Null
    /\ UNCHANGED <<isConnecting, connectionAttempts, keepAlive, caller>>
    /\ UNCHANGED orchVars

OpenSessions == {s \in 1..MaxSessions : sessions[s] = "open"}


\* =================================================================== job ids
\* An id as the string generateJobId returns, in UTF-16 code units: the
\* ISO date-time down to the seconds, "-", the milliseconds padded to 3 digits.
\* The date-time fields are fixed-width; the seconds field stands for them.
RECURSIVE Digits(_)
Digits(n) == IF n < 10 THEN <<48 + n>> ELSE Digits(n \div 10) \o <<48 + (n % 10)>>

\* String.prototype.padStart(width, '0')
RECURSIVE padStart(_, _)
padStart(str, width) == IF Len(str) >= width THEN str ELSE padStart(<<48>> \o str, width)

\* now.getMilliseconds().toString().padStart(3, '0')
msField(ms) == padStart(Digits(ms), 3)

\* `${timestamp}-${ms}` for the id (seconds, milliseconds)
JobIdText(jobId) == padStart(Digits(jobId[1]), 2) \o <<45>> \o msField(jobId[2])

\* a < b for strings (code-unit order, a proper prefix is smaller)
RECURSIVE LexLess(_, _)
LexLess(a, b) ==
    IF b = <<>> THEN FALSE
    ELSE IF a = <<>> THEN TRUE
    ELSE IF Head(a) # Head(b) THEN Head(a) < Head(b)
    ELSE LexLess(Tail(a), Tail(b))

\* clock readings around the places where the number of digits changes
Times == {0, 1, 9, 10, 11, 99, 100, 101, 999, 1000, 1001, 1010, 9999, 10000, 10009, 10010}

\* generateJobId() for the next submission; the clock does not run backwards
\* between two submissions but may still show the same millisecond
GenerateNext(now) ==
    /\ Len(stamps) < MaxStamps
    /\ stamps # <<>> => stamps[Len(stamps)].now <= now
    /\ stamps' = Append(stamps, [now |-> now, id |-> generateJobId(now)])
    /\ UNCHANGED coreVars
    /\ UNCHANGED <<checked, mirror, script, sbatch, dial, waiter, store, probe, disconnected>>

\* ============================================================ path validator
\* A remote path is a string: a sequence of atoms, each "/" or "." or a run of
\* other characters that no other atom starts with.
Slash == <<"/">>
DotDot == <<".", ".">>

\* ConfigManager.getClusterInfo, as strings
scratchBase == <<"/", "scratch.hpc">>
scratchDir == scratchBase \o <<"/", "user">>
jobsDirPath == scratchDir \o <<"/", "hpc_jobs">>

\* String.prototype.startsWith
StartsWith(str, prefix) ==
    /\ Len(prefix) <= Len(str)
    /\ SubSeq(str, 1, Len(prefix)) = prefix

\* String.prototype.includes('..')
IncludesDotDot(str) == \E i \in 1..(Len(str) - 1) : str[i] = "." /\ str[i + 1] = "."

\* str.split('/')
RECURSIVE SplitPath(_)
SplitPath(str) ==
    IF str = <<>> THEN << <<>> >>
    ELSE LET rest == SplitPath(Tail(str)) IN
         IF Head(str) = "/" THEN << <<>> >> \o rest
         ELSE << <<Head(str)>> \o rest[1] >> \o Tail(rest)

\* segments joined by '/'
RECURSIVE JoinPath(_)
JoinPath(segs) ==
    IF segs = <<>> THEN <<>>
    ELSE IF Len(segs) = 1 THEN segs[1]
    ELSE segs[1] \o Slash \o JoinPath(Tail(segs))

\* normalizeString of path.posix: "" and "." segments dropped, ".." removes the
\* segment before it, or stays when there is none and the path is relative
RECURSIVE normalizeString(_, _, _)
normalizeString(segs, acc, allowAboveRoot) ==
    IF segs = <<>> THEN acc
    ELSE LET h == Head(segs) IN
         IF h = <<>> \/ h = <<".">>
         THEN normalizeString(Tail(segs), acc, allowAboveRoot)
         ELSE IF h = DotDot
         THEN IF acc # <<>> /\ acc[Len(acc)] # DotDot
              THEN normalizeString(Tail(segs), SubSeq(acc, 1, Len(acc) - 1), allowAboveRoot)
              ELSE IF allowAboveRoot
              THEN normalizeString(Tail(segs), Append(acc, DotDot), allowAboveRoot)
              ELSE normalizeString(Tail(segs), acc, allowAboveRoot)
         ELSE normalizeString(Tail(segs), Append(acc, h), allowAboveRoot)

\* path.posix.normalize
normalize(str) ==
    IF str = <<>> THEN <<".">>
    ELSE LET isAbsolute == str[1] = "/"
             trailingSeparator == str[Len(str)] = "/"
             body == JoinPath(normalizeString(SplitPath(str), <<>>, ~isAbsolute))
             dotted == IF body = <<>> /\ ~isAbsolute THEN <<".">> ELSE body
             tailed == IF dotted # <<>> /\ trailingSeparator THEN dotted \o Slash ELSE dotted
         IN IF isAbsolute THEN Slash \o tailed ELSE tailed

\* SafetyManager.validatePath: "ok" for `return true`, else the thrown error
validatePath(remotePath) ==
    LET normalizedPath == normalize(remotePath) IN
    IF ~StartsWith(normalizedPath, scratchDir) THEN "SecurityError"
    ELSE IF IncludesDotDot(remotePath) THEN "SecurityError"
    ELSE IF normalizedPath = Slash \/ normalizedPath = scratchBase THEN "SecurityError"
    ELSE "ok"

\* SafetyManager.validateDelete
validateDelete(remotePath) ==
    IF validatePath(remotePath) # "ok" THEN "SecurityError"
    ELSE IF ~StartsWith(remotePath, jobsDirPath \o Slash) THEN "SecurityError"
    ELSE IF remotePath = jobsDirPath THEN "SecurityError"
    ELSE "ok"

\* the directory an absolute path denotes on the cluster: its segments with
\* ".", ".." and empty segments resolved
Denotes(str) == normalizeString(SplitPath(str), <<>>, FALSE)

\* dir is root or lies below it
IsWithin(dir, root) == Len(root) <= Len(dir) /\ SubSeq(dir, 1, Len(root)) = root

\* segments a caller may put into a path
PathSegments ==
    { <<>>, <<".">>, DotDot, <<"scratch.hpc">>, <<"user">>, <<"user", "2">>,
      <<"hpc_jobs">>, <<"j1">> }

NoCheck == [fn |-> "none", path |-> <<>>, verdict |-> "none"]

\* the caller builds the path, one "/segment" at a time
PathExtend(seg) ==
    /\ checked.fn = "none"
    /\ Len(SplitPath(checked.path)) <= MaxSegments
    /\ checked' = [checked EXCEPT !.path = @ \o Slash \o seg]
    /\ UNCHANGED coreVars
    /\ UNCHANGED <<stamps, mirror, script, sbatch, dial, waiter, store, probe, disconnected>>

\* safetyManager.validatePath(path)
CallValidatePath ==
    /\ checked.fn = "none"
    /\ checked' = [checked EXCEPT !.fn = "validatePath", !.verdict = validatePath(checked.path)]
    /\ UNCHANGED coreVars
    /\ UNCHANGED <<stamps, mirror, script, sbatch, dial, waiter, store, probe, disconnected>>

\* safetyManager.validateDelete(path)
CallValidateDelete ==
    /\ checked.fn = "none"
    /\ checked' = [checked EXCEPT !.fn = "validateDelete", !.verdict = validateDelete(checked.path)]
    /\ UNCHANGED coreVars
    /\ UNCHANGED <<stamps, mirror, script, sbatch, dial, waiter, store, probe, disconnected>>

\* ======================================================== downloadDirectory
\* A remote tree: directory path (sequence of names below the job directory)
\* -> the entries sftp.readdir lists for it, in the order the server sends them.
File(name) == [name |-> name, dir |-> FALSE]
Dir(name)  == [name |-> name, dir |-> TRUE]

EmptyTree   == (<<>> :> <<>>)
FlatTree    == (<<>> :> <<File("a"), File("b")>>)
FileFirst   == (<<>> :> <<File("a"), Dir("sub")>>) @@ (<<"sub">> :> <<File("b")>>)
DirFirst    == (<<>> :> <<Dir("sub"), File("a")>>) @@ (<<"sub">> :> <<File("b")>>)
DeepTree    == (<<>> :> <<Dir("sub")>>) @@ (<<"sub">> :> <<Dir("deep"), File("b")>>)
                   @@ (<<"sub", "deep">> :> <<File("c")>>)
EmptySubdir == (<<>> :> <<Dir("sub"), File("a")>>) @@ (<<"sub">> :> <<>>)
Trees == {EmptyTree, FlatTree, FileFirst, DirFirst, DeepTree, EmptySubdir}

\* the regular files of a remote tree, as paths below the job directory
RemoteFiles(tree) ==
    UNION { {Append(p, tree[p][i].name) : i \in {k \in 1..Len(tree[p]) : ~tree[p][k].dir}}
            : p \in DOMAIN tree }

\* nothing retrieved yet, no retrieval running
\*   dirs, files  the directories and regular files below the local results dir
\*   stack        the pending _downloadDirRecursive calls, outermost first, each
\*                with the entries its loop has still to visit
\*   cur          the file of the fastGet in flight
\*   pc           "idle" | "connect" | "sftp" | "readdir" | "get" | "done", or
\*                "hung": the promise of downloadDirectory is pending, no
\*                request is in flight and no callback is left to settle it
\*   runs, kept   retrievals that succeeded; the local files the last one left
NoMirror(tree) ==
    [remote |-> tree, dirs |-> {}, files |-> {}, stack |-> <<>>, cur |-> <<>>,
     pc |-> "idle", result |-> "none", runs |-> 0, kept |-> Null]

\* if (!fs.existsSync(localPath)) fs.mkdirSync(localPath, { recursive: true })
mkdirIfMissing(dirs, localPath) == IF localPath \in dirs THEN dirs ELSE dirs \cup {localPath}

\* faulty variant: an existing local file is kept and the download stored beside it
fastGet_KeepBoth(files, localFile) ==
    IF localFile \in files THEN files \cup {Append(localFile, "copy")} ELSE files \cup {localFile}

\* sftp.fastGet(remoteFile, localFile) that succeeded: the local file is
\* created or overwritten
fastGet(files, localFile) == files \cup {localFile}

\* downloadDirectory rejects (connect failed, sftp failed, or the try/catch of
\* line 75 caught the rejection of the outermost _downloadDirRecursive)
Rejected(m) == [m EXCEPT !.pc = "done", !.result = "TransferFailure", !.stack = <<>>]

\* an error thrown inside the async callback of sftp.readdir: the callback's own
\* promise rejects, nobody holds it, and neither resolve nor reject of the
\* enclosing `new Promise` is ever called
Unsettled(m) == [m EXCEPT !.pc = "hung"]

\* the callback of sftp.readdir from the point where it runs on to its next
\* await: the loop takes the next entry (a directory: the recursive call makes
\* the local directory and issues its readdir; a file: fastGet is issued); at
\* the end of the list resolve() lets the caller's loop go on, and the
\* outermost resolve() settles downloadDirectory
RECURSIVE Advance(_)
Advance(m) ==
    IF m.stack = <<>>
    THEN [m EXCEPT !.pc = "done", !.result = "ok", !.runs = @ + 1, !.kept = <<m.files>>]
    ELSE LET n    == Len(m.stack)
             top  == m.stack[n] IN
         IF top.todo = <<>>
         THEN Advance([m EXCEPT !.stack = SubSeq(@, 1, n - 1)])
         ELSE LET item == Head(top.todo)
                  p    == Append(top.path, item.name)
                  rest == [m.stack EXCEPT ![n].todo = Tail(@)] IN
              IF item.dir
              THEN [m EXCEPT !.stack = Append(rest, [path |-> p, todo |-> <<>>]),
                             !.dirs = mkdirIfMissing(@, p),
                             !.pc = "readdir"]
              ELSE [m EXCEPT !.stack = rest, !.cur = p, !.pc = "get"]

\* fetchResults past the ledger lookup: the results directory is made when
\* missing, downloadDirectory is called and awaits connect()
FetchBegin ==
    /\ mirror.pc = "idle"
    /\ mirror.runs < MaxFetches
    /\ mirror' = [mirror EXCEPT !.pc = "connect", !.result = "none",
                                !.dirs = mkdirIfMissing(@, <<>>)]
    /\ UNCHANGED coreVars
    /\ UNCHANGED <<checked, stamps, script, sbatch, dial, waiter, store, probe, disconnected>>

\* const conn = await this.connect()
DownloadConnect(threw) ==
    /\ mirror.pc = "connect"
    /\ mirror' = IF threw THEN Rejected(mirror) ELSE [mirror EXCEPT !.pc = "sftp"]
    /\ UNCHANGED coreVars
    /\ UNCHANGED <<checked, stamps, script, sbatch, dial, waiter, store, probe, disconnected>>

\* conn.sftp(async (err, sftp) => ...): on success the outermost
\* _downloadDirRecursive makes the local directory and issues its readdir
DownloadSftp(err) ==
    /\ mirror.pc = "sftp"
    /\ mirror' = IF err THEN Rejected(mirror)
                 ELSE [mirror EXCEPT !.pc = "readdir",
                                     !.dirs = mkdirIfMissing(@, <<>>),
                                     !.stack = <<[path |-> <<>>, todo |-> <<>>]>>]
    /\ UNCHANGED coreVars
    /\ UNCHANGED <<checked, stamps, script, sbatch, dial, waiter, store, probe, disconnected>>

\* sftp.readdir(remotePath, async (err, list) => ...) of the innermost call: an
\* error rejects that call's promise; the outermost one is awaited inside
\* try/catch, an inner one is awaited inside the caller's readdir callback
DownloadReaddir(err) ==
    /\ mirror.pc = "readdir"
    /\ LET n == Len(mirror.stack) IN
       mirror' = IF err
                 THEN IF n = 1 THEN Rejected(mirror) ELSE Unsettled(mirror)
                 ELSE Advance([mirror EXCEPT
                                  !.stack[n].todo = mirror.remote[mirror.stack[n].path]])
    /\ UNCHANGED coreVars
    /\ UNCHANGED <<checked, stamps, script, sbatch, dial, waiter, store, probe, disconnected>>

\* await new Promise((res, rej) => sftp.fastGet(remoteFile, localFile, ...)):
\* rej(err) makes the await throw inside the readdir callback
DownloadGet(err) ==
    /\ mirror.pc = "get"
    /\ mirror' = IF err THEN Unsettled(mirror)
                 ELSE Advance([mirror EXCEPT !.files = fastGet(@, mirror.cur)])
    /\ UNCHANGED coreVars
    /\ UNCHANGED <<checked, stamps, script, sbatch, dial, waiter, store, probe, disconnected>>

\* the caller of fetchResults takes the result
FetchEnd ==
    /\ mirror.pc = "done"
    /\ mirror' = [mirror EXCEPT !.pc = "idle"]
    /\ UNCHANGED coreVars
    /\ UNCHANGED <<checked, stamps, script, sbatch, dial, waiter, store, probe, disconnected>>

\* ============================================================ ScriptBuilder
\* A script is a sequence of lines, a line a sequence of text and number pieces.
SbatchLine(option, n) == <<TextPiece("#SBATCH " \o option), DigitsPiece(n)>>
TextLine(str) == <<TextPiece(str)>>

\* what the dialogs collect: the file suffix, the GPU and the CPU count
\* (parseInt of input that matched /^\d+$/)
JobConfigs ==
    [ext : {".py", ".c"}, gpus : 0..MaxGpus, cpus : 1..MaxCpus]

\* faulty variant: the GPU directive is written for every count
buildHeader_AlwaysGres(jobConfig) ==
    <<TextLine("#!/bin/bash"),
      SbatchLine("--cpus-per-task=", jobConfig.cpus),
      SbatchLine("--gres=gpu:", jobConfig.gpus),
      TextLine("#SBATCH --mem=")>>

\* ScriptBuilder._buildHeader: the directives, --gres only `if (gpus > 0)`
buildHeader(jobConfig) ==
    <<TextLine("#!/bin/bash"),
      TextLine("#SBATCH --job-name="),
      TextLine("#SBATCH --output="),
      TextLine("#SBATCH --error="),
      TextLine("#SBATCH --partition="),
      TextLine("#SBATCH --nodes=1"),
      TextLine("#SBATCH --ntasks=1"),
      SbatchLine("--cpus-per-task=", jobConfig.cpus)>>
    \o (IF jobConfig.gpus > 0 THEN <<SbatchLine("--gres=gpu:", jobConfig.gpus)>> ELSE <<>>)
    \o <<TextLine("#SBATCH --mem="),
         TextLine("#SBATCH --time=")>>

\* executor.buildExecutionCommand: the commands run inside `( ... )`
\*   Python: `python <file>`; C/C++: the compiler call, a newline, `./<file>.out`
buildExecutionCommand(jobConfig) ==
    IF jobConfig.ext = ".c" THEN <<"compile", "execute">> ELSE <<"python">>

\* ScriptBuilder._buildExecution: the subshell line, then EXIT_CODE=$?
buildExecution(jobConfig) ==
    <<TextLine("START_TIME=$(date +%s)"),
      <<TextPiece("(")>> \o [i \in 1..Len(buildExecutionCommand(jobConfig)) |->
                                TextPiece(buildExecutionCommand(jobConfig)[i])]
                        \o <<TextPiece(") > execution_log.txt 2> execution_errors.txt")>>,
      TextLine("EXIT_CODE=$?")>>

\* ScriptBuilder._buildStatusCapture: the lines of the document that carry
\* numbers of the configuration
buildStatusCapture(jobConfig) ==
    <<TextLine("if [ $EXIT_CODE -eq 0 ]; then JOB_STATUS=COMPLETED else JOB_STATUS=FAILED fi"),
      TextLine("cat > status.json << EOFSTATUS"),
      <<TextPiece("  gpus: "), DigitsPiece(jobConfig.gpus)>>,
      <<TextPiece("  cpus: "), DigitsPiece(jobConfig.cpus)>>,
      TextLine("EOFSTATUS")>>

\* ScriptBuilder.buildScript: sections.join('\n\n')
ScriptText(jobConfig) ==
    buildHeader(jobConfig) \o buildExecution(jobConfig) \o buildStatusCapture(jobConfig)

\* the status a process leaves to the shell: the low 8 bits of what it exits with
ExitStatus(n) == n % 256

\* what the commands of the execution line may exit with
ExitValues == {0, 1, 2, 127, 255, 256, 257}

\* $? after `( c1 <newline> c2 ... )`: the status of the last command
SubshellStatus(exits) == ExitStatus(exits[Len(exits)])

\* faulty variant: statuses above 128 (killed by a signal) are not failures
JobStatusOf_SignalsIgnored(exitCode) == IF exitCode = 0 \/ exitCode > 128 THEN "COMPLETED" ELSE "FAILED"

\* if [ $EXIT_CODE -eq 0 ]; then JOB_STATUS="COMPLETED" else JOB_STATUS="FAILED"
JobStatusOf(exitCode) == IF exitCode = 0 THEN "COMPLETED" ELSE "FAILED"

\* the here-document with $JOB_STATUS and $EXIT_CODE expanded
StatusDocument(exitCode) == [status |-> JobStatusOf(exitCode), exitCode |-> exitCode]

NoScript ==
    [stage |-> "none", config |-> [ext |-> "", gpus |-> 0, cpus |-> 0],
     lines |-> <<>>, exits |-> <<>>, doc |-> Null]

\* scriptBuilder.buildScript(jobConfig, clusterInfo)
BuildScript(jobConfig) ==
    /\ script.stage = "none"
    /\ script' = [script EXCEPT !.stage = "built", !.config = jobConfig,
                                !.lines = ScriptText(jobConfig)]
    /\ UNCHANGED coreVars
    /\ UNCHANGED <<checked, stamps, mirror, sbatch, dial, waiter, store, probe, disconnected>>

\* the scheduler runs the script to its end: the commands of the execution line
\* exit with `exits`, then status.json is written
RunScript(exits) ==
    /\ script.stage = "built"
    /\ Len(exits) = Len(buildExecutionCommand(script.config))
    /\ script' = [script EXCEPT !.stage = "ran", !.exits = exits,
                                !.doc = <<StatusDocument(SubshellStatus(exits))>>]
    /\ UNCHANGED coreVars
    /\ UNCHANGED <<checked, stamps, mirror, sbatch, dial, waiter, store, probe, disconnected>>

\* ==================================================== the sbatch step, retried
\* await executeCommand(`cd <dir> && sbatch job.sbatch`) seen from both ends:
\*   submit    the submission (1, 2, ...) whose sbatch step is running
\*   attempt   the attempt of executeCommand, counted from 0
\*   created   the scheduler jobs that exist, each with the submission it is for
\*   recorded  the (submission, scheduler id) pairs written to the ledger
\*   failed    the submissions whose submitJob threw
NoSbatch ==
    [pc |-> "idle", submit |-> 0, attempt |-> 0, created |-> {}, recorded |-> {},
     failed |-> {}]

\* how one attempt of executeCommandOnConnection may end
\*   "closed"    sbatch ran and queued the job; the stream closed with the
\*               success text on standard output
\*   "rejected"  sbatch ran and the scheduler refused the job; the stream
\*               closed with nothing on standard output
\*   "late"      sbatch ran and queued the job, but the 60 s timer fired
\*               before the stream closed: the promise rejects with
\*               'Command timeout'
\*   "unsent"    getConnection threw or conn.exec reported an error: the
\*               command never ran
SbatchOutcomes == {"closed", "rejected", "late", "unsent"}

\* the id the scheduler gives the next job it queues
NextSchedulerId(created) == Cardinality(created) + 1

\* executeCommand: `if (attempt === maxRetries - 1) throw error`, else
\* sleep(1000) and the next turn of the loop
AttemptAgain(attempt) == attempt # opMaxRetries - 1

\* submitJob reaches line 179
SbatchCall ==
    /\ sbatch.pc = "idle"
    /\ sbatch.submit < MaxSubmits
    /\ sbatch' = [sbatch EXCEPT !.pc = "exec", !.submit = @ + 1, !.attempt = 0]
    /\ UNCHANGED coreVars
    /\ UNCHANGED <<checked, stamps, mirror, script, dial, waiter, store, probe, disconnected>>

\* one attempt ends; on resolve submitJob parses the id and saves the record
\* (lines 183-206) without a further await
SbatchAttempt(out) ==
    /\ sbatch.pc = "exec"
    /\ LET id   == NextSchedulerId(sbatch.created)
           made == IF out \in {"closed", "late"}
                   THEN sbatch.created \cup {[submit |-> sbatch.submit, slurmId |-> id]}
                   ELSE sbatch.created IN
       sbatch' =
           CASE out = "closed" ->
                    [sbatch EXCEPT !.pc = "idle", !.created = made,
                                   !.recorded = @ \cup {[submit |-> sbatch.submit,
                                                         slurmId |-> <<id>>]}]
             [] out = "rejected" ->
                    [sbatch EXCEPT !.pc = "idle",
                                   !.recorded = @ \cup {[submit |-> sbatch.submit,
                                                         slurmId |-> Null]}]
             [] OTHER ->
                    IF AttemptAgain(sbatch.attempt)
                    THEN [sbatch EXCEPT !.pc = "pause", !.created = made]
                    ELSE [sbatch EXCEPT !.pc = "idle", !.created = made,
                                        !.failed = @ \cup {sbatch.submit}]
    /\ UNCHANGED coreVars
    /\ UNCHANGED <<checked, stamps, mirror, script, dial, waiter, store, probe, disconnected>>

\* await this.sleep(1000) is over: the command is sent again
SbatchPause ==
    /\ sbatch.pc = "pause"
    /\ sbatch' = [sbatch EXCEPT !.pc = "exec", !.attempt = @ + 1]
    /\ UNCHANGED coreVars
    /\ UNCHANGED <<checked, stamps, mirror, script, dial, waiter, store, probe, disconnected>>

\* ===================================================== backoff of connectWithRetry
RECURSIVE Pow2(_)
Pow2(n) == IF n = 0 THEN 1 ELSE 2 * Pow2(n - 1)

\* faulty variant: jitter of +-50%
calculateBackoffDelay_WideJitter(attempt, r) ==
    LET delay == baseRetryDelay * Pow2(attempt) IN
    (delay * (2 * RandomSteps + 4 * r)) \div (4 * RandomSteps)

\* ConnectionManager.calculateBackoffDelay with Math.random() = r / RandomSteps:
\*   delay  = baseRetryDelay * 2^attempt
\*   jitter = delay * 0.25 * (random - 0.5) * 2
\*   Math.floor(delay + jitter) = floor(delay * (3 + 2 * random) / 4)
calculateBackoffDelay(attempt, r) ==
    LET delay == baseRetryDelay * Pow2(attempt) IN
    (delay * (3 * RandomSteps + 2 * r)) \div (4 * RandomSteps)

\* connectWithRetry of one caller, nobody else on the connection manager
\*   log     how each attempt ended; delays  the sleeps taken between attempts
NoDial == [pc |-> "idle", attempt |-> 0, log |-> <<>>, delays |-> <<>>]

\* connectWithRetry begins: attempt 0
DialStart ==
    /\ dial.pc = "idle"
    /\ dial' = [NoDial EXCEPT !.pc = "handshake"]
    /\ UNCHANGED coreVars
    /\ UNCHANGED <<checked, stamps, mirror, script, sbatch, waiter, store, probe, disconnected>>

\* establishConnection of the current attempt settles; after a failure that is
\* neither an authentication failure nor the last attempt the backoff delay is
\* computed with the random number r and slept
DialHandshake(out, r) ==
    /\ dial.pc = "handshake"
    /\ LET rec == [dial EXCEPT !.log = Append(@, out)] IN
       dial' = IF out = Ready THEN [rec EXCEPT !.pc = "connected"]
               ELSE IF isAuthenticationError(Error(out)) \/ ~retryAfter(dial.attempt)
               THEN [rec EXCEPT !.pc = "failed"]
               ELSE [rec EXCEPT !.pc = "sleep",
                                !.delays = Append(@, calculateBackoffDelay(dial.attempt, r))]
    /\ UNCHANGED coreVars
    /\ UNCHANGED <<checked, stamps, mirror, script, sbatch, waiter, store, probe, disconnected>>

\* await this.sleep(delay) is over: the next turn of the loop
DialSleepOver ==
    /\ dial.pc = "sleep"
    /\ dial' = [dial EXCEPT !.pc = "handshake", !.attempt = @ + 1]
    /\ UNCHANGED coreVars
    /\ UNCHANGED <<checked, stamps, mirror, script, sbatch, waiter, store, probe, disconnected>>

\* the caller has the connection or the error
DialEnd ==
    /\ dial.pc \in {"connected", "failed"}
    /\ dial' = NoDial
    /\ UNCHANGED coreVars
    /\ UNCHANGED <<checked, stamps, mirror, script, sbatch, waiter, store, probe, disconnected>>

\* ======================================================== waitForConnection
\* One caller in waitForConnection, with the time it has spent there; the
\* acquisition it waits for belongs to another caller and is seen through
\* isConnecting and connection only.
NoWaiter == [pc |-> "idle", elapsed |-> 0, held |-> Null]

\* faulty variant: the wait never expires
WaitExpired_Never(elapsed) == FALSE

\* Date.now() - startTime > maxWait
WaitExpired(elapsed) == elapsed > maxWait

\* waitForConnection from a loop test on to the next await, the return or the
\* throw, `elapsed` milliseconds after it was entered
WaitLoop(elapsed) ==
    IF isConnecting
    THEN IF WaitExpired(elapsed)
         THEN [pc |-> "timedout", elapsed |-> elapsed, held |-> Null]
         ELSE [pc |-> "sleeping", elapsed |-> elapsed, held |-> Null]
    ELSE IF connection # Null
         THEN [pc |-> "returned", elapsed |-> elapsed, held |-> connection]
         ELSE [pc |-> "failed", elapsed |-> elapsed, held |-> Null]

\* another caller's connectWithRetry begins
AcquisitionBegins ==
    /\ ~isConnecting
    /\ connection = Null
    /\ \E s \in 1..MaxSessions : sessions[s] = "none"
    /\ isConnecting' = TRUE
    /\ disconnected' = FALSE
    /\ UNCHANGED <<ledger, clock, task, connection, connectionAttempts, sessions,
                   keepAlive, caller>>
    /\ UNCHANGED <<checked, stamps, mirror, script, sbatch, dial, waiter, store, probe>>

\* it ends: with a session cached, or with its error thrown to that caller
AcquisitionEnds(ok) ==
    /\ isConnecting
    /\ isConnecting' = FALSE
    /\ IF ok
       THEN /\ sessions' = [sessions EXCEPT ![FreshSession] = "open"]
            /\ connection' = <<FreshSession>>
       ELSE UNCHANGED <<sessions, connection>>
    /\ UNCHANGED <<ledger, clock, task, connectionAttempts, keepAlive, caller>>
    /\ UNCHANGED <<checked, stamps, mirror, script, sbatch, dial, waiter, store, probe, disconnected>>

\* 'close' event of the cached session
CachedSessionCloses ==
    /\ connection # Null
    /\ sessions' = [sessions EXCEPT ![connection[1]] = "closed"]
    /\ connection' = Null
    /\ UNCHANGED <<ledger, clock, task, isConnecting, connectionAttempts, keepAlive, caller>>
    /\ UNCHANGED <<checked, stamps, mirror, script, sbatch, dial, waiter, store, probe, disconnected>>

\* ConnectionManager.disconnect() called at any moment: the cached session, if
\* there is one, is ended and forgotten; nothing else is touched
DisconnectReturns ==
    /\ sessions' = IF connection = Null THEN sessions
                   ELSE [sessions EXCEPT ![connection[1]] = IF @ = "open" THEN "ended" ELSE @]
    /\ connection' = Null
    /\ disconnected' = TRUE
    /\ UNCHANGED <<ledger, clock, task, isConnecting, connectionAttempts, keepAlive, caller>>
    /\ UNCHANGED <<checked, stamps, mirror, script, sbatch, dial, waiter, store, probe>>

\* getConnection finds no cached connection and an acquisition in progress:
\* return this.waitForConnection(), which reaches its first sleep
WaitBegin ==
    /\ waiter.pc = "idle"
    /\ connection = Null
    /\ isConnecting
    /\ waiter' = WaitLoop(0)
    /\ UNCHANGED coreVars
    /\ UNCHANGED <<checked, stamps, mirror, script, sbatch, dial, store, probe, disconnected>>

\* await this.sleep(500) is over: the loop test again
WaitWake ==
    /\ waiter.pc = "sleeping"
    /\ waiter.elapsed < MaxElapsed
    /\ waiter' = WaitLoop(waiter.elapsed + waitSleep)
    /\ UNCHANGED coreVars
    /\ UNCHANGED <<checked, stamps, mirror, script, sbatch, dial, store, probe, disconnected>>

\* the caller of getConnection has the connection or the error
WaitEnd ==
    /\ waiter.pc \in {"returned", "failed", "timedout"}
    /\ waiter' = NoWaiter
    /\ UNCHANGED coreVars
    /\ UNCHANGED <<checked, stamps, mirror, script, sbatch, dial, store, probe, disconnected>>

\* ================================================= jobs.json, read and written
\* The operations that load the ledger and save it again, with a read that may
\* fail: readFileSync or JSON.parse throws, and loadJobs returns [].
NoStore == [pc |-> "idle", jobs |-> <<>>, failed |-> FALSE, submitted |-> 0]

\* StorageManager.loadJobs with its try/catch
loadJobsFrom(file, readable) == IF readable THEN file ELSE <<>>

\* the end of submitJob from `const jobs = this.loadJobs()` on: push and save,
\* without an await in between
StoreSubmit(readable, slurmId) ==
    /\ store.pc = "idle"
    /\ store.submitted < MaxSubmits
    /\ LET jobs == loadJobsFrom(ledger, readable) IN
       /\ Len(jobs) < MaxJobs
       /\ ledger' = Append(jobs, NewJob(<<store.submitted + 1, 0>>, slurmId))
    /\ store' = [store EXCEPT !.failed = ~readable, !.submitted = @ + 1]
    /\ UNCHANGED <<clock, task, connection, isConnecting, connectionAttempts, sessions,
                   keepAlive, caller>>
    /\ UNCHANGED <<checked, stamps, mirror, script, sbatch, dial, waiter, probe, disconnected>>

\* getJobStatus: const jobs = this.loadJobs(), then the queries
StorePollLoad(readable) ==
    /\ store.pc = "idle"
    /\ store' = [store EXCEPT !.pc = "polling", !.jobs = loadJobsFrom(ledger, readable),
                              !.failed = ~readable]
    /\ UNCHANGED coreVars
    /\ UNCHANGED <<checked, stamps, mirror, script, sbatch, dial, waiter, probe, disconnected>>

\* getJobStatus after its last query: the jobs that were queried carry the
\* status found, and this.saveJobs(jobs) writes the local copy
StorePollSave(status) ==
    /\ store.pc = "polling"
    /\ ledger' = [i \in 1..Len(store.jobs) |->
                    IF NeedsQuery(store.jobs[i])
                    THEN [store.jobs[i] EXCEPT !.status = status]
                    ELSE store.jobs[i]]
    /\ store' = [store EXCEPT !.pc = "idle", !.jobs = <<>>]
    /\ UNCHANGED <<clock, task, connection, isConnecting, connectionAttempts, sessions,
                   keepAlive, caller>>
    /\ UNCHANGED <<checked, stamps, mirror, script, sbatch, dial, waiter, probe, disconnected>>

\* ========================================================= isConnectionAlive
\* One call of isConnectionAlive with the time since it began: the promise,
\* the 2 s timer, the exec callback and the events of the probe's channel.
NoProbe == [pc |-> "idle", timer |-> FALSE, elapsed |-> 0, output |-> <<>>, result |-> "none"]

\* output.includes('ping') on the chunks received, `echo "ping"` arriving in
\* one chunk or split in two
IncludesPing(output) ==
    \/ \E i \in 1..Len(output) : output[i] = "ping\n"
    \/ \E i \in 1..(Len(output) - 1) : output[i] = "pi" /\ output[i + 1] = "ng\n"

\* resolve(value): the awaiting caller gets value
Resolved(value) ==
    [probe EXCEPT !.pc = "settled", !.result = IF value THEN "alive" ELSE "dead"]

\* isConnectionAlive is called: false at once without a cached connection,
\* else the timer is set and exec('echo "ping"') sent
ProbeCall ==
    /\ probe.pc = "idle"
    /\ probe' = IF connection = Null
                THEN [NoProbe EXCEPT !.pc = "settled", !.result = "dead"]
                ELSE [NoProbe EXCEPT !.pc = "exec", !.timer = TRUE]
    /\ UNCHANGED coreVars
    /\ UNCHANGED <<checked, stamps, mirror, script, sbatch, dial, waiter, store, disconnected>>

\* time passes; a timer that is set fires when it is due, not later
ProbeTick ==
    /\ probe.pc \in {"exec", "stream"}
    /\ probe.elapsed < MaxProbeWait
    /\ probe.timer => probe.elapsed < probeTimeout
    /\ probe' = [probe EXCEPT !.elapsed = @ + ProbeStep]
    /\ UNCHANGED coreVars
    /\ UNCHANGED <<checked, stamps, mirror, script, sbatch, dial, waiter, store, disconnected>>

\* the timer fires: resolve(false)
ProbeTimeout ==
    /\ probe.pc \in {"exec", "stream"}
    /\ probe.timer
    /\ probe.elapsed >= probeTimeout
    /\ probe' = [Resolved(FALSE) EXCEPT !.timer = FALSE]
    /\ UNCHANGED coreVars
    /\ UNCHANGED <<checked, stamps, mirror, script, sbatch, dial, waiter, store, disconnected>>

\* the callback of exec: clearTimeout(timeout), then resolve(false) on an
\* error, else the handlers of the channel are installed
ProbeExecCallback(err) ==
    /\ probe.pc = "exec"
    /\ probe' = IF err
                THEN [Resolved(FALSE) EXCEPT !.timer = FALSE]
                ELSE [probe EXCEPT !.pc = "stream", !.timer = FALSE]
    /\ UNCHANGED coreVars
    /\ UNCHANGED <<checked, stamps, mirror, script, sbatch, dial, waiter, store, disconnected>>

\* 'data' event of the channel
ProbeData(chunk) ==
    /\ probe.pc = "stream"
    /\ Len(probe.output) < 2
    /\ probe' = [probe EXCEPT !.output = Append(@, chunk)]
    /\ UNCHANGED coreVars
    /\ UNCHANGED <<checked, stamps, mirror, script, sbatch, dial, waiter, store, disconnected>>

\* 'close' event of the channel: resolve(output.includes('ping'))
ProbeStreamClose ==
    /\ probe.pc = "stream"
    /\ probe' = Resolved(IncludesPing(probe.output))
    /\ UNCHANGED coreVars
    /\ UNCHANGED <<checked, stamps, mirror, script, sbatch, dial, waiter, store, disconnected>>

\* the caller of isConnectionAlive goes on with the answer
ProbeReturn ==
    /\ probe.pc = "settled"
    /\ probe' = NoProbe
    /\ UNCHANGED coreVars
    /\ UNCHANGED <<checked, stamps, mirror, script, sbatch, dial, waiter, store, disconnected>>

\* -------------------------------------------------------- specifications
InitOrch ==
    /\ ledger = <<>>
    /\ clock = 999
    /\ task = [t \in Tasks |-> IdleTask]

InitConn ==
    /\ connection = Null
    /\ isConnecting = FALSE
    /\ connectionAttempts = 0
    /\ sessions = [s \in 1..MaxSessions |-> "none"]
    /\ keepAlive = [s \in 1..MaxSessions |-> TimerOff]
    /\ caller = [c \in Callers |-> IdleCaller]

InitSide ==
    /\ checked = NoCheck
    /\ stamps = <<>>
    /\ mirror = NoMirror(EmptyTree)
    /\ script = NoScript
    /\ sbatch = NoSbatch
    /\ dial = NoDial
    /\ waiter = NoWaiter
    /\ store = NoStore
    /\ probe = NoProbe
    /\ disconnected = FALSE

Init == InitOrch /\ InitConn /\ InitSide

\* one editor command at a time, and explicit deletions between them
Next ==
    \/ Return(SeqTask)
    \/ submitJob(SeqTask)
    \/ getJobStatus(SeqTask)
    \/ getJobDetails(SeqTask)
    \/ fetchResults(SeqTask)
    \/ cleanRemoteJob(SeqTask)
    \/ AllIdle /\ DeleteSome

Spec == Init /\ [][Next]_vars

\* a submission or a poll pass in the foreground, a poll pass overlapping it
NextOverlap ==
    \/ Return("t1")
    \/ submitJob("t1")
    \/ getJobStatus("t1")
    \/ Return("t2")
    \/ getJobStatus("t2")

SpecOverlap == Init /\ [][NextOverlap]_vars

CallKinds == {"exec", "upload", "connect"}

\* two overlapping calls on the connection manager, sessions closing under them
NextConn ==
    \/ \E c \in Callers, kind \in CallKinds : CallStart(c, kind)
    \/ \E c \in Callers, alive \in BOOLEAN : ProbeDone(c, alive)
    \/ \E c \in Callers : WaitTimeout(c)
    \/ \E c \in Callers : WaitDone(c)
    \/ \E c \in Callers, out \in {Ready} \cup HandshakeErrors : Handshake(c, out)
    \/ \E c \in Callers : Backoff(c)
    \/ \E c \in Callers, out \in {<<"ok">>, CommandTimeout, SftpFailure, NotConnected, NullDeref} :
           RunDone(c, out)
    \/ \E c \in Callers : UseConnection(c)
    \/ \E c \in Callers : Catch(c)
    \/ \E c \in Callers : Pause(c)
    \/ \E c \in Callers : CallEnd(c)
    \/ \E s \in 1..MaxSessions : SessionClose(s)

SpecConn == Init /\ [][NextConn]_vars

\* one call at a time, with the keep-alive timers, session closes and
\* disconnect() arriving between its steps
NextSession ==
    \/ \E kind \in CallKinds : CallStart("a", kind)
    \/ \E alive \in BOOLEAN : ProbeDone("a", alive)
    \/ \E out \in {Ready} \cup HandshakeErrors : Handshake("a", out)
    \/ Backoff("a")
    \/ \E out \in {<<"ok">>, CommandTimeout, SftpFailure, NotConnected, NullDeref} :
           RunDone("a", out)
    \/ UseConnection("a")
    \/ Catch("a")
    \/ Pause("a")
    \/ CallEnd("a")
    \/ \E s \in 1..MaxSessions : SessionClose(s)
    \/ \E s \in 1..MaxSessions : KeepAliveTick(s)
    \/ \E s \in 1..MaxSessions, alive \in BOOLEAN : KeepAliveDone(s, alive)
    \/ disconnect

SpecSession == Init /\ [][NextSession]_vars

\* the path validator applied to every path of up to MaxSegments segments
NextValidator ==
    \/ \E seg \in PathSegments : PathExtend(seg)
    \/ CallValidatePath
    \/ CallValidateDelete

SpecValidator == Init /\ [][NextValidator]_vars

\* successive submissions reading the clock for their ids
NextIds == \E now \in Times : GenerateNext(now)

SpecIds == Init /\ [][NextIds]_vars

\* jobs.json as a session finds it: a job submitted earlier, under the
\* username configured now or under the one configured before it was changed
\* (extension.js configureConnection)
StoredJob(username) ==
    [NewJob(<<1, 0>>, <<1>>) EXCEPT
        !.remoteDir = <<"/scratch.hpc", username, "hpc_jobs", <<1, 0>>>>]
StoredLedgers == { <<StoredJob(username)>> : username \in {"user", "guest"} }

\* record.remoteDir as the string handed to the remote command; the
\* timestamp id has no "/" and no ".", so one name atom stands for it
RemotePath(remoteDir) ==
    scratchBase \o <<"/", remoteDir[2], "/", remoteDir[3], "/", "j1">>

InitStored ==
    /\ ledger \in StoredLedgers
    /\ clock = 999
    /\ task = [t \in Tasks |-> IdleTask]
    /\ InitConn
    /\ InitSide

\* one command at a time on the ledger found on disk
NextStored ==
    \/ Return(SeqTask)
    \/ getJobStatus(SeqTask)
    \/ getJobDetails(SeqTask)
    \/ fetchResults(SeqTask)
    \/ cleanRemoteJob(SeqTask)

SpecStored == InitStored /\ [][NextStored]_vars

\* result retrieval of one job, repeated, the remote job directory unchanged
InitFetch ==
    /\ InitOrch
    /\ InitConn
    /\ checked = NoCheck
    /\ stamps = <<>>
    /\ \E tree \in Trees : mirror = NoMirror(tree)
    /\ script = NoScript
    /\ sbatch = NoSbatch
    /\ dial = NoDial
    /\ waiter = NoWaiter
    /\ store = NoStore
    /\ probe = NoProbe
    /\ disconnected = FALSE

NextFetch ==
    \/ FetchBegin
    \/ \E threw \in BOOLEAN : DownloadConnect(threw)
    \/ \E err \in BOOLEAN : DownloadSftp(err)
    \/ \E err \in BOOLEAN : DownloadReaddir(err)
    \/ \E err \in BOOLEAN : DownloadGet(err)
    \/ FetchEnd

SpecFetch == InitFetch /\ [][NextFetch]_vars

\* a script built for one job configuration, then run by the scheduler
NextScript ==
    \/ \E jobConfig \in JobConfigs : BuildScript(jobConfig)
    \/ \E exits \in UNION {[1..n -> ExitValues] : n \in 1..2} : RunScript(exits)

SpecScript == Init /\ [][NextScript]_vars

\* the sbatch step of successive submissions, each attempt ending in any way
NextSbatch ==
    \/ SbatchCall
    \/ \E out \in SbatchOutcomes : SbatchAttempt(out)
    \/ SbatchPause

SpecSbatch == Init /\ [][NextSbatch]_vars

\* one acquisition after the other, every outcome and every random number
NextBackoff ==
    \/ DialStart
    \/ \E out \in {Ready} \cup HandshakeErrors, r \in 0..(RandomSteps - 1) : DialHandshake(out, r)
    \/ DialSleepOver
    \/ DialEnd

SpecBackoff == Init /\ [][NextBackoff]_vars

\* a caller waiting for an acquisition that may end at any time, or never; the
\* timer of sleep(500) always fires, and a result is always taken
NextWait ==
    \/ AcquisitionBegins
    \/ \E ok \in BOOLEAN : AcquisitionEnds(ok)
    \/ CachedSessionCloses
    \/ WaitBegin
    \/ WaitWake
    \/ WaitEnd

SpecWait == Init /\ [][NextWait]_vars /\ WF_vars(WaitWake) /\ WF_vars(WaitEnd)

\* submissions and poll passes on a ledger file that cannot always be read
NextStore ==
    \/ \E readable \in BOOLEAN, slurmId \in {Null, <<7>>} : StoreSubmit(readable, slurmId)
    \/ \E readable \in BOOLEAN : StorePollLoad(readable)
    \/ \E status \in {"RUNNING", "COMPLETED", "UNKNOWN"} : StorePollSave(status)

SpecStore == Init /\ [][NextStore]_vars

\* liveness probes on whatever connection is cached, the channel of the probe
\* answering, failing, or staying silent
NextProbe ==
    \/ AcquisitionBegins
    \/ \E ok \in BOOLEAN : AcquisitionEnds(ok)
    \/ CachedSessionCloses
    \/ ProbeCall
    \/ ProbeTick
    \/ ProbeTimeout
    \/ \E err \in BOOLEAN : ProbeExecCallback(err)
    \/ \E chunk \in {"ping\n", "pi", "ng\n"} : ProbeData(chunk)
    \/ ProbeStreamClose
    \/ ProbeReturn

SpecProbe == Init /\ [][NextProbe]_vars

\* two overlapping calls of connect(), every attempt of an acquisition ending
\* in a session, a handshake error or a configuration error
NextFlag ==
    \/ \E c \in Callers : CallStart(c, "connect")
    \/ \E c \in Callers, alive \in BOOLEAN : ProbeDone(c, alive)
    \/ \E c \in Callers : WaitTimeout(c)
    \/ \E c \in Callers : WaitDone(c)
    \/ \E c \in Callers, out \in {Ready} \cup ConnectErrors : Handshake(c, out)
    \/ \E c \in Callers : Backoff(c)
    \/ \E c \in Callers : UseConnection(c)
    \/ \E c \in Callers : Catch(c)
    \/ \E c \in Callers : CallEnd(c)
    \/ \E s \in 1..MaxSessions : SessionClose(s)

SpecFlag == Init /\ [][NextFlag]_vars

\* disconnect() arriving at any moment of an acquisition, a caller waiting
NextShutdown ==
    \/ AcquisitionBegins
    \/ \E ok \in BOOLEAN : AcquisitionEnds(ok)
    \/ CachedSessionCloses
    \/ DisconnectReturns
    \/ WaitBegin
    \/ WaitWake
    \/ WaitEnd

SpecShutdown == Init /\ [][NextShutdown]_vars

\* =============================================================== properties

\* C1: submitJob appends a record only after the scheduler accepted the
\* submission: a submitJob step that ends the call without the scheduler having
\* accepted the job leaves the ledger as it was, and so does every earlier step.
C1_RecordOnlyAfterAcceptance ==
    [][\A t \in Tasks :
          (task'[t] # task[t] /\ task'[t].op = "submit" /\ ~task'[t].accepted)
              => ledger' = ledger]_vars

\* C2: ledger read-modify-write cycles are serialized, no update is lost: when
\* poll passes and submissions overlap, a record once in the ledger stays in
\* it, and a terminal status once written stays written.
C2_NoLostUpdate ==
    [][\A i \in 1..Len(ledger) :
          /\ i <= Len(ledger')
          /\ ledger'[i].id = ledger[i].id
          /\ ledger[i].status \in Terminal => ledger'[i] = ledger[i]]_vars

\* C3: in a poll pass a job whose status cannot be resolved (query error,
\* metadata file absent, unreadable or unparseable) is set to UNKNOWN, the pass
\* does not throw, every job that needed a query got one, and the ledger
\* holds the pass's result when the pass ends.
C3_UnresolvedIsUnknown ==
    \A t \in Tasks :
        task[t].op = "poll" =>
            /\ task[t].result \in {"none", "ok"}
            /\ \A i \in 1..Len(task[t].jobs) :
                   task[t].obs[i] = "unresolved" => task[t].jobs[i].status = "UNKNOWN"
            /\ task[t].pc = "done" =>
                   /\ task[t].result = "ok"
                   /\ ledger = task[t].jobs
                   /\ \A i \in 1..Len(task[t].jobs) :
                          task[t].obs[i] = "none" => ~NeedsQuery(task[t].jobs[i])

\* a finished pass over two jobs: one unresolved, its sibling resolved
C3_Witness ==
    \E t \in Tasks :
        /\ task[t].op = "poll" /\ task[t].pc = "done"
        /\ \E i, j \in 1..Len(task[t].jobs) :
               /\ task[t].obs[i] = "unresolved"
               /\ task[t].obs[j] \in {"queue", "file", "invalid"}

\* C4: once a job's ledger status is COMPLETED or FAILED, no later poll pass
\* queries the scheduler or the metadata file for it, and no step of a poll
\* pass changes its record (status or snapshot).
C4_TerminalIsFinal ==
    [][\A t \in Tasks :
          /\ (task'[t].op = "poll" /\ task'[t].pc \in {"squeue", "cat"})
                 => task'[t].jobs[task'[t].idx].status \notin Terminal
          /\ (task'[t] # task[t] /\ "poll" \in {task[t].op, task'[t].op})
                 => \A i \in 1..Len(ledger) :
                        ledger[i].status \in Terminal
                            => i <= Len(ledger') /\ ledger'[i] = ledger[i]]_vars

\* a pass that queried one job and skipped a job an earlier pass made terminal
C4_Witness ==
    \E t \in Tasks :
        /\ task[t].op = "poll" /\ task[t].pc = "done"
        /\ \E i, j \in 1..Len(task[t].jobs) :
               /\ task[t].jobs[i].status \in Terminal
               /\ task[t].jobs[i].slurmId # Null
               /\ task[t].obs[i] = "none"
               /\ task[t].obs[j] # "none"

\* C5: records leave the ledger only by explicit deletion: a step of submit,
\* poll, details, fetch-results or cleanup keeps every record (same ids in the
\* same order), cleanRemoteJob leaves the ledger as it is, and deleteJob(id)
\* leaves exactly the records whose id differs from id.
C5_OnlyDeleteRemoves ==
    [][/\ task' # task =>
             \A i \in 1..Len(ledger) :
                 i <= Len(ledger') /\ ledger'[i].id = ledger[i].id
       /\ (\E t \in Tasks : "clean" \in {task[t].op, task'[t].op}) => ledger' = ledger
       /\ (task' = task /\ ledger' # ledger) =>
             \E r \in Range(ledger) :
                 ledger' = SelectSeq(ledger, LAMBDA x : x.id # r.id)]_vars

\* a cleanup that ran its remote remove while the ledger holds two records
C5_Witness ==
    \E t \in Tasks :
        /\ task[t].op = "clean" /\ task[t].pc = "done" /\ task[t].result = "ok"
        /\ Len(ledger) >= 2
        /\ \E i \in 1..Len(ledger) : ledger[i].status \in Terminal

\* C6: at most one live session exists at any time: of the remote-shell
\* sessions the connection manager opened, no two are open together.
C6_AtMostOneLiveSession == Cardinality(OpenSessions) <= 1

\* C7: connection acquisition is gated: at most one caller is inside the
\* handshake loop (an attempt or its backoff) at any time, and a caller that
\* passes the gate while another caller's loop is running either waits for
\* that loop or reuses a cached connection its probe found alive.
C7_SingleHandshakeLoop ==
    [][/\ \A c, d \in Callers : (InLoop(c)' /\ InLoop(d)') => c = d
       /\ \A c, d \in Callers :
              (/\ c # d
               /\ InLoop(d)
               /\ caller[c].pc \in {"idle", "pause", "probe"}
               /\ caller'[c].pc \notin {"idle", "pause", "probe"})
                  => \/ caller'[c].pc = "wait"
                     \/ caller[c].pc = "probe" /\ caller'[c].pc = "acquired"]_vars

\* one caller in the handshake loop, the other waiting for it
C7_Witness ==
    \E c, d \in Callers : caller[c].pc = "backoff" /\ caller[d].pc = "wait"

\* C8: an authentication failure ends the acquisition at once: it is the last
\* attempt of its loop, no backoff follows it, the connecting flag is cleared,
\* and the caller gets the enriched error carrying the failure as its cause.
C8_AuthFailureIsFinal ==
    \A c \in Callers :
        \A i \in 1..Len(caller[c].hsLog) :
            caller[c].hsLog[i] = AuthFailed =>
                /\ i = Len(caller[c].hsLog)
                /\ caller[c].pc = "caught"
                /\ caller[c].delays = i - 1
                /\ ~isConnecting
                /\ caller[c].error.originalError = AuthFailed
                /\ caller[c].error.msg = AuthFailed

\* the second attempt of a loop ended in an authentication failure
C8_Witness ==
    \E c \in Callers :
        /\ caller[c].pc = "caught"
        /\ Len(caller[c].hsLog) = 2
        /\ caller[c].hsLog[2] = AuthFailed

\* C9: an acquisition makes at most three attempts, returns the live session
\* of the first attempt that succeeds, goes on only after failures that are not
\* authentication failures, sleeps after every failed attempt but the last,
\* and after the third failure throws the enriched error whose cause is that
\* third failure.
C9_BoundedAttempts ==
    \A c \in Callers :
        LET log == caller[c].hsLog
            n == Len(log)
        IN /\ n <= 3
           /\ \A i \in 1..(n - 1) : log[i] \in {SshTimeout, ConnRefused}
           /\ InLoop(c) => n < 3 /\ caller[c].delays = n
           /\ caller[c].pc = "backoff" => n > 0
           /\ (n > 0 /\ log[n] = Ready) =>
                  /\ caller[c].pc = "acquired"
                  /\ caller[c].held # Null
                  /\ sessions[caller[c].held[1]] = "open"
                  /\ connection = caller[c].held
                  /\ caller[c].delays = n - 1
           /\ (n = 3 /\ log[3] # Ready) =>
                  /\ caller[c].pc = "caught"
                  /\ caller[c].delays = 2
                  /\ caller[c].error.originalError = log[3]

\* three failed attempts with different causes: the error carries the last
C9_Witness ==
    \E c \in Callers :
        /\ caller[c].pc = "caught"
        /\ caller[c].hsLog = <<ConnRefused, SshTimeout, ConnRefused>>
        /\ caller[c].error.originalError = ConnRefused


\* C10: when the file kind is not recognised or the recipe's validation
\* rejects the parameters, submitJob fails before any remote interaction.
C10_RejectedBeforeRemote ==
    \A t \in Tasks :
        (task[t].op = "submit"
            /\ task[t].result \in {"UnsupportedFileKind", "ValidationError"})
                => task[t].trace = <<>>


\* C11: a remote path is checked by the path validator before it is used: the
\* recursive remove of cleanRemoteJob runs only on a path validateDelete accepts.
C11_RemoveOnlyValidatedPath ==
    \A t \in Tasks :
        (task[t].op = "clean" /\ task[t].trace # <<>>) =>
            validateDelete(RemotePath(task[t].jobs[1].remoteDir)) = "ok"

\* C12: validatePath accepts a path only if it denotes the per-user root or
\* something below it and contains no ".." sequence.
C12_AcceptsOnlyInsideUserRoot ==
    (checked.fn = "validatePath" /\ checked.verdict = "ok") =>
        /\ IsWithin(Denotes(checked.path), << <<"scratch.hpc">>, <<"user">> >>)
        /\ ~IncludesDotDot(checked.path)

\* C13: validateDelete accepts a path only if validatePath accepts it and it
\* denotes a strict descendant of the jobs root, never the jobs root itself.
C13_DeleteOnlyBelowJobsRoot ==
    (checked.fn = "validateDelete" /\ checked.verdict = "ok") =>
        /\ validatePath(checked.path) = "ok"
        /\ IsWithin(Denotes(checked.path),
                    << <<"scratch.hpc">>, <<"user">>, <<"hpc_jobs">> >>)
        /\ Denotes(checked.path) # << <<"scratch.hpc">>, <<"user">>, <<"hpc_jobs">> >>


\* C14 as stated: ids are unique, whatever the clock showed: no two
\* submissions get the same id.
C14_IdsAlwaysUnique ==
    \A i, j \in 1..Len(stamps) : i # j => stamps[i].id # stamps[j].id

\* C14: of two submissions that read distinct millisecond timestamps, the
\* earlier one gets the lexicographically smaller id, so their ids differ.
C14_DistinctStampsOrderedIds ==
    \A i, j \in 1..Len(stamps) :
        (i < j /\ stamps[i].now # stamps[j].now) =>
            /\ LexLess(JobIdText(stamps[i].id), JobIdText(stamps[j].id))
            /\ ~LexLess(JobIdText(stamps[j].id), JobIdText(stamps[i].id))
            /\ stamps[i].id # stamps[j].id


C16_SuccessAppendsOnePending ==
    [][\A t \in Tasks :
          (task[t].op = "submit" /\ task[t].pc = "sbatch" /\ task'[t].pc = "done"
               /\ task'[t].result = "ok")
          => /\ Len(ledger') = Len(ledger) + 1
             /\ SubSeq(ledger', 1, Len(ledger)) = ledger
             /\ ledger'[Len(ledger')].id = task[t].jobId
             /\ ledger'[Len(ledger')].status = "PENDING"
             /\ ledger'[Len(ledger')].statusData = Null
             /\ task'[t].accepted =>
                    /\ ledger'[Len(ledger')].slurmId # Null
                    /\ \A i \in 1..Len(ledger) :
                           ledger[i].slurmId # ledger'[Len(ledger')].slurmId
             /\ ~task'[t].accepted => ledger'[Len(ledger')].slurmId = Null]_vars

\* one submission succeeded without the success text, after one that was
\* accepted: the ledger holds a record with a scheduler id and one without
C16_Witness ==
    \E t \in Tasks :
        /\ task[t].op = "submit" /\ task[t].pc = "done" /\ task[t].result = "ok"
        /\ ~task[t].accepted
        /\ Len(ledger) = 2
        /\ ledger[1].slurmId = <<1>>
        /\ ledger[2].slurmId = Null /\ ledger[2].status = "PENDING"


\* the remote steps of one submission with n input files, in program order
SubmitSteps(n) ==
    <<"mkdir", "put main">> \o [i \in 1..n |-> "put input"] \o <<"put job.sbatch", "sbatch">>

\* C17 (order alone): the remote steps a submission has finished are an initial
\* part of: mkdir, primary file, every input file, job.sbatch, sbatch.
C17_TraceInOrder ==
    \A t \in Tasks :
        task[t].op = "submit" =>
            /\ Len(task[t].trace) <= Len(SubmitSteps(task[t].nInputs))
            /\ task[t].trace = SubSeq(SubmitSteps(task[t].nInputs), 1, Len(task[t].trace))

\* C17: the remote steps of one submission run strictly in order, and a step
\* begins only after the step before it completed successfully: once the
\* submission is past directory creation, the directory has been created.
C17_StepsInOrderAfterSuccess ==
    /\ C17_TraceInOrder
    /\ \A t \in Tasks :
           (task[t].op = "submit" /\ task[t].pc \in {"uploadMain", "uploadInput", "uploadScript", "sbatch"})
               => task[t].dirMade


\* C20: getJobDetails, fetchResults and cleanRemoteJob called with an id that
\* no ledger record carries end at once with the job-not-found error: no remote
\* command or transfer is issued on their behalf and the ledger is not changed.
C20_UnknownIdFailsLocally ==
    [][\A t \in Tasks :
          /\ (/\ task[t].pc = "idle"
              /\ task'[t].op \in {"details", "fetch", "clean"}
              /\ \A i \in 1..Len(ledger) : ledger[i].id # task'[t].jobId)
             => /\ task'[t].pc = "done"
                /\ task'[t].result = "JobNotFound"
                /\ task'[t].trace = <<>>
                /\ ledger' = ledger
          /\ (task[t].op \in {"details", "fetch", "clean"} /\ task[t].result = "JobNotFound")
             => /\ task[t].pc = "done"
                /\ task[t].trace = <<>>
                /\ task'[t].trace = <<>>
                /\ ledger' = ledger]_vars

\* cleanRemoteJob was called with an unknown id while the ledger holds a record
C20_Witness ==
    \E t \in Tasks :
        /\ task[t].op = "clean" /\ task[t].pc = "done"
        /\ task[t].result = "JobNotFound"
        /\ task[t].jobId = <<0, 0>>
        /\ Len(ledger) >= 1


\* C18 (success half): a retrieval that succeeds has made every directory and
\* copied every regular file of the remote tree, at every depth.
C18_MirrorsOnSuccess ==
    (mirror.pc = "done" /\ mirror.result = "ok")
        => /\ mirror.files = RemoteFiles(mirror.remote)
           /\ DOMAIN mirror.remote \subseteq mirror.dirs

\* C18: downloadDirectory always settles: it is never left pending with no
\* request in flight, and when it succeeds the remote tree has been mirrored.
C18_AlwaysSettles ==
    /\ mirror.pc # "hung"
    /\ C18_MirrorsOnSuccess

\* C19: a result retrieval that succeeds after an earlier one succeeded, the
\* remote job directory unchanged, leaves exactly the local files the earlier
\* one left: the regular files of the remote tree, nothing added or removed.
C19_FetchTwiceSameFiles ==
    [][(mirror.runs >= 1 /\ mirror'.runs = mirror.runs + 1)
          => /\ mirror'.pc = "done" /\ mirror'.result = "ok"
             /\ mirror'.files = mirror.kept[1]
             /\ mirror'.files = mirror.files]_vars

\* the second retrieval of a tree with a file below a subdirectory succeeded
C19_Witness ==
    /\ mirror.runs = 2 /\ mirror.pc = "done" /\ mirror.result = "ok"
    /\ mirror.remote = FileFirst
    /\ mirror.files = {<<"a">>, <<"sub", "b">>}


C22_FailedJobsDownloadable ==
    \A t \in Tasks :
        (task[t].op = "poll" /\ task[t].pc = "done")
        => \A i \in 1..Len(ledger) :
               ledger[i].status = "FAILED" => ledger[i] \in JobPickerItems(task[t].completed)


\* C23: the script built for a request of 0 GPUs has no --gres directive; the
\* script built for a request of n > 0 GPUs has exactly one, and it carries n.
C23_GpuDirectiveMatchesCount ==
    script.stage # "none" =>
        LET gres == {i \in 1..Len(script.lines) :
                        script.lines[i][1].text = "#SBATCH --gres=gpu:"} IN
        /\ script.config.gpus = 0 => gres = {}
        /\ script.config.gpus > 0 =>
               /\ Cardinality(gres) = 1
               /\ \A i \in gres : /\ Len(script.lines[i]) = 2
                                  /\ script.lines[i][2].kind = "digits"
                                  /\ script.lines[i][2].num = script.config.gpus

\* a script was built for two GPUs
C23_Witness ==
    /\ script.stage = "built"
    /\ script.config.gpus = 2
    /\ \E i \in 1..Len(script.lines) : script.lines[i] = SbatchLine("--gres=gpu:", 2)

\* C24: the document the script writes has status COMPLETED exactly when the
\* execution line left exit code 0 and FAILED for every other code, and its
\* exitCode is that code.
C24_StatusFollowsExitCode ==
    script.stage = "ran" =>
        LET code == script.exits[Len(script.exits)] % 256 IN
        /\ script.doc[1].exitCode = code
        /\ script.doc[1].status = "COMPLETED" <=> code = 0
        /\ script.doc[1].status = "FAILED" <=> code # 0

\* a C program whose compilation succeeded was run and ended with status 255
C24_Witness ==
    /\ script.stage = "ran"
    /\ script.config.ext = ".c"
    /\ script.exits = <<0, 255>>
    /\ script.doc[1].status = "FAILED"


\* C25: UNKNOWN is not final. A poll pass skips no job that has a scheduler id
\* and status UNKNOWN: each is queried again; and when the query of a job finds
\* it in the queue or finds a metadata file with a literal status, the pass
\* gives the job the observed status (a terminal one when it came from the file).
C25_UnknownIsQueriedAgain ==
    [][\A t \in Tasks :
          LET a == task[t]
              b == task'[t]
              from == IF a.pc = "idle" THEN 0 ELSE a.idx IN
          /\ (b.op = "poll" /\ (a.pc = "idle" \/ a.op = "poll"))
             => \A j \in 1..Len(b.jobs) :
                    (from < j /\ j < b.idx)
                        => ~(b.jobs[j].slurmId # Null /\ b.jobs[j].status = "UNKNOWN")
          /\ (a.op = "poll" /\ a.pc \in {"squeue", "cat"} /\ b.op = "poll")
             => /\ b.obs[a.idx] = "queue" => b.jobs[a.idx].status \in {"RUNNING", "PENDING"}
                /\ b.obs[a.idx] = "file" => b.jobs[a.idx].status \in {"COMPLETED", "FAILED"}]_vars

\* a later pass queries a job it loaded as UNKNOWN: squeue answered with
\* nothing and the metadata file is read next
C25_Witness ==
    \E t \in Tasks :
        /\ task[t].op = "poll" /\ task[t].pc = "cat"
        /\ task[t].jobs[task[t].idx].status = "UNKNOWN"
        /\ task[t].jobs[task[t].idx].slurmId # Null
        /\ ledger[task[t].idx].status = "UNKNOWN"


\* C26: one submitJob call creates at most one scheduler job, and every
\* scheduler job that exists once the call is over has its scheduler id in the
\* ledger record of its submission.
C26_AtMostOneSchedulerJob ==
    /\ \A x, y \in sbatch.created : x.submit = y.submit => x = y
    /\ sbatch.pc = "idle" =>
           \A x \in sbatch.created :
               [submit |-> x.submit, slurmId |-> <<x.slurmId>>] \in sbatch.recorded


\* C27: a call of executeCommand or of a transfer (uploadFile, downloadFile)
\* makes at most 2 attempts, whatever the number of handshake attempts inside
\* each. The catch block after a failed first attempt clears the cached
\* connection (a transfer: always; a command: when the message names a
\* connection failure) and pauses; after the pause the call goes through
\* getConnection again, which hands over only a session that is open at that
\* moment. The catch block after a failed second attempt ends the call with
\* that attempt's error.
C27_TwoAttemptsThenSurface ==
    [][\A c \in Callers :
          LET a == caller[c]
              b == caller'[c] IN
          /\ b.opAttempt \in {0, 1}
          /\ (a.pc = "caught" /\ a.kind \in {"exec", "upload"} /\ a.opAttempt = 0 /\ b # a)
             => /\ b.pc = "pause" /\ b.opAttempt = 0
                /\ (\/ a.kind = "upload"
                    \/ \E i \in 1..Len(a.error.msg) : a.error.msg[i] \in {"Connection", "ETIMEDOUT"})
                   => connection' = Null
          /\ (a.pc = "pause" /\ b # a)
             => /\ b.opAttempt = 1
                /\ b.pc \in {"probe", "wait", "handshake"}
                /\ b.held = Null
          /\ (a.pc # "acquired" /\ b.pc = "acquired" /\ b.held # Null)
             => sessions'[b.held[1]] = "open"
          /\ (a.pc = "caught" /\ a.kind \in {"exec", "upload"} /\ a.opAttempt = 1 /\ b # a)
             => /\ b.pc = "done" /\ b.result = "error"
                /\ b.error = a.error /\ b.error # NoError]_vars

\* the second attempt of a command failed after its own third handshake
\* attempt: the call is about to end with that error
C27_Witness ==
    \E c \in Callers :
        /\ caller[c].kind = "exec" /\ caller[c].pc = "caught"
        /\ caller[c].opAttempt = 1
        /\ Len(caller[c].hsLog) = 3


\* C30: when the cached connection passes the liveness probe, getConnection
\* returns that very connection and no session is opened; a handshake loop is
\* entered only when there is no cached connection or its probe failed.
C30_ProbedConnectionIsReturned ==
    [][\A c \in Callers :
          /\ (caller[c].pc = "probe" /\ caller'[c].pc = "acquired")
             => /\ caller'[c].held = <<caller[c].probed>>
                /\ sessions' = sessions
          /\ (caller[c].pc \notin {"handshake", "backoff"} /\ caller'[c].pc = "handshake")
             => \/ connection = Null
                \/ caller[c].pc = "probe"]_vars


\* C28: after two handshake attempts that failed without an authentication
\* failure the acquisition goes on, and succeeds on the 3rd attempt when that
\* one succeeds; the delay slept before attempt 2 lies between 1500 and 2500 ms
\* and the delay before attempt 3 between 3000 and 5000 ms.
C28_BackoffWithinJitter ==
    /\ Len(dial.delays) >= 1 => (1500 <= dial.delays[1] /\ dial.delays[1] <= 2500)
    /\ Len(dial.delays) >= 2 => (3000 <= dial.delays[2] /\ dial.delays[2] <= 5000)
    /\ Len(dial.delays) <= 2
    /\ (/\ Len(dial.log) >= 2
        /\ \A i \in 1..2 : dial.log[i] \in {<<"SSH_TIMEOUT">>,
                                           <<"connect ", "ECONNREFUSED", " 10.0.0.1:22">>})
       => /\ Len(dial.delays) = 2
          /\ Len(dial.log) = 2 => dial.pc \in {"sleep", "handshake"}
          /\ (Len(dial.log) = 3 /\ dial.log[3] = <<"ready">>)
                 => (dial.pc = "connected" /\ dial.attempt = 2)

\* the third attempt succeeded after a timeout and a refused connection, with
\* the smallest delay before attempt 2 and a delay above 4.5 s before attempt 3
C28_Witness ==
    /\ dial.pc = "connected"
    /\ dial.attempt = 2
    /\ Len(dial.log) = 3
    /\ dial.delays[1] = 1500
    /\ dial.delays[2] > 4500


C31_DeadConnectionIsReplaced ==
    [][/\ \A s \in 1..MaxSessions :
            (keepAlive[s].probing /\ keepAlive[s].timer /\ ~keepAlive'[s].probing
                /\ ~keepAlive'[s].timer /\ sessions' = sessions)
                => connection' = Null
       /\ (caller["a"].pc \in {"idle", "pause"} /\ caller'["a"].pc \notin {"idle", "pause"}
             /\ connection = Null)
            => caller'["a"].pc = "handshake" /\ isConnecting'
       /\ (caller["a"].pc = "handshake" /\ caller'["a"].pc = "acquired")
            => /\ caller'["a"].held # Null
               /\ sessions[caller'["a"].held[1]] = "none"
               /\ sessions'[caller'["a"].held[1]] = "open"
               /\ connection' = caller'["a"].held]_vars

\* session 1 is still open but its health check gave up on it; the call now
\* holds session 2, made by a handshake of its own
C31_Witness ==
    /\ sessions[1] = "open"
    /\ keepAlive[1] = TimerOff
    /\ caller["a"].pc = "acquired"
    /\ caller["a"].held = <<2>>
    /\ connection = <<2>>


\* C32: when a poll pass reads, after an empty queue answer, a metadata file
\* whose status is a literal value, the job's status is that value and the
\* parsed document is attached to the record.
C32_LiteralStatusIsAdopted ==
    [][\A t \in Tasks :
         (task[t].op = "poll" /\ task[t].pc = "cat" /\ task'[t].pc # "cat"
            /\ task'[t].obs[task[t].idx] = "file")
         => LET job == task'[t].jobs[task[t].idx] IN
            /\ job.statusData # Null
            /\ job.statusData[1].kind = "json"
            /\ job.statusData[1].status \in {"COMPLETED", "FAILED"}
            /\ job.status = job.statusData[1].status
            /\ [job EXCEPT !.status = "", !.statusData = Null]
                 = [task[t].jobs[task[t].idx] EXCEPT !.status = "", !.statusData = Null]]_vars

\* a pass has adopted FAILED from the metadata file of its first job
C32_Witness ==
    /\ task["t1"].op = "poll"
    /\ Len(task["t1"].jobs) >= 1
    /\ task["t1"].obs[1] = "file"
    /\ task["t1"].jobs[1].status = "FAILED"
    /\ task["t1"].jobs[1].statusData = <<[kind |-> "json", status |-> "FAILED"]>>

\* C33: when a poll pass reads, after an empty queue answer, a metadata file
\* that parses but whose status is missing or a placeholder, the job's status
\* is COMPLETED and no document is attached to the record.
C33_InvalidDocumentMeansCompleted ==
    [][\A t \in Tasks :
         (task[t].op = "poll" /\ task[t].pc = "cat" /\ task'[t].pc # "cat"
            /\ task'[t].obs[task[t].idx] = "invalid")
         => LET job == task'[t].jobs[task[t].idx] IN
            /\ job.status = "COMPLETED"
            /\ job.statusData = Null
            /\ [job EXCEPT !.status = ""] = [task[t].jobs[task[t].idx] EXCEPT !.status = ""]]_vars

\* a pass has read a literal-invalid document for its first job
C33_Witness ==
    /\ task["t1"].op = "poll"
    /\ Len(task["t1"].jobs) >= 1
    /\ task["t1"].obs[1] = "invalid"
    /\ task["t1"].jobs[1].status = "COMPLETED"
    /\ task["t1"].jobs[1].statusData = Null

\* C34: when the queue answer for a job is not empty, the job's status is the
\* scheduler state reported, without the surrounding white space, and the pass
\* goes on to the next job or ends without reading the job's metadata file.
C34_QueueStateIsAdopted ==
    [][\A t \in Tasks :
         (task[t].op = "poll" /\ task[t].pc = "squeue" /\ task'[t] # task[t]
            /\ task'[t].obs[task[t].idx] = "queue")
         => LET job == task'[t].jobs[task[t].idx] IN
            /\ job.status \in {"RUNNING", "PENDING"}
            /\ job.statusData = task[t].jobs[task[t].idx].statusData
            /\ task'[t].pc # "cat"
            /\ task'[t].pc = "squeue" => task'[t].idx > task[t].idx]_vars

\* the scheduler reported the first job as running
C34_Witness ==
    /\ task["t1"].op = "poll"
    /\ Len(task["t1"].jobs) >= 1
    /\ task["t1"].obs[1] = "queue"
    /\ task["t1"].jobs[1].status = "RUNNING"
    /\ task["t1"].pc \in {"squeue", "done"}


\* C35: an operation whose load of the ledger failed does not write a ledger
\* from which a record that was in the file is missing.
C35_FailedLoadLosesNothing ==
    [][(store'.failed /\ ledger' # ledger)
         => \A r \in Range(ledger) : \E q \in Range(ledger') : q.id = r.id]_vars


\* C36: a liveness probe that has not settled has been going on for at most
\* 2 s: isConnectionAlive answers true or false within its timeout whatever
\* the probe's channel does.
C36_ProbeSettlesInTime ==
    probe.pc \in {"exec", "stream"} => probe.elapsed <= 2000


\* C37: isConnecting is set exactly while a caller is inside the loop of
\* connectWithRetry, between two of its awaits: whichever way the loop ended
\* (a session, an authentication failure, a configuration error on every
\* attempt, all attempts failed) the flag is clear, and a caller that waits
\* for an acquisition sees it end.
C37_FlagFollowsTheLoop ==
    /\ isConnecting <=> \E c \in Callers : caller[c].pc \in {"handshake", "backoff"}
    /\ \A c \in Callers :
         caller[c].pc = "wait" =>
            \/ isConnecting /\ \E d \in Callers \ {c} : caller[d].pc \in {"handshake", "backoff"}
            \/ ~isConnecting

\* the loop of one caller has just ended on its third configuration error
\* while the other caller waits for it
C37_Witness ==
    /\ caller["a"].pc = "caught"
    /\ Len(caller["a"].hsLog) = 3
    /\ \A i \in 1..3 : caller["a"].hsLog[i] =
          <<"Missing configuration. Please set cluster host and username in VSCode settings.">>
    /\ caller["b"].pc = "wait"
    /\ ~isConnecting


\* C38: the close event of a session leaves a cached connection that is
\* another session in place, and a health check that settles clears the
\* cached connection only if that is the session it probed.
C38_OnlyOwnSessionInvalidated ==
    [][\A s \in 1..MaxSessions :
         /\ (sessions[s] # "closed" /\ sessions'[s] = "closed"
               /\ connection # Null /\ connection # <<s>>)
              => connection' = connection
         /\ (keepAlive[s].probing /\ ~keepAlive'[s].probing
               /\ connection # Null /\ connection' = Null)
              => keepAlive[s].target = connection[1]]_vars


C40_NothingCachedAfterDisconnect ==
    disconnected => connection = <<>>

====
